---- MODULE Spec2Model ----
(***************************************************************************)
(* Model of the Local LLM Benchmark Suite:                                  *)
(*   - MemoryManager   (src/local-llm-benchmark-suite/src/agent/           *)
(*                      MemoryManager.js): documents, chunks, retrieval    *)
(*   - BenchmarkManager (src/unnamed/part_003): the capped metrics log     *)
(*   - AgentRuntime    (src/unnamed/part_002): tool matching, the          *)
(*                      invocation log and the tool invocation             *)
(*   - ToolContext, ToolsPanel, MCPPanel, ChatPanel (src/.../context/      *)
(*                      ToolContext.jsx, src/unnamed/part_000 to part_002) *)
(*                                                                         *)
(* Strings are sequences of one-character strings, so that splitting,      *)
(* joining, trimming and tokenizing are computed character by character.   *)
(* Specifications sharing the variables:                                 *)
(*   Spec        the memory store under add/delete/clear/re-embed/search   *)
(*   SpecChunk   splitIntoChunks applied to every bounded text             *)
(*   SpecMetrics the metrics log under logMetric/clearMetrics              *)
(*   SpecStatLog getStatistics between logMetric and clearMetrics calls    *)
(*   SpecMatch   findBestMatch applied to the explored inputs and tools    *)
(*   SpecLog     the invocation log under repeated matches                 *)
(*   SpecAgent   process() with its tool invocation in flight              *)
(*   SpecInvoke  process() over the configurations of one matched tool     *)
(*   SpecStats   getStatistics applied to bounded series of entries        *)
(*   SpecTools   the Tools panel under save/delete/toggle                  *)
(*   SpecMcp     the MCP panel under save/connect/disconnect               *)
(*   SpecChat    the chat panel: typing, sending and the reply             *)
(***************************************************************************)
EXTENDS Integers, Sequences, FiniteSets, TLC

VARIABLES
  documents,   \* MemoryManager.documents: the Map's values in insertion order
  chunks,      \* MemoryManager.chunks: array of chunk records
  nextDocId,   \* MemoryManager.nextDocId
  lastOp,      \* the most recent store call: its arguments and its outcome
  pre,         \* the store as it was when the most recent call started
  text,        \* SpecChunk: the text handed to splitIntoChunks
  splitOut,    \* SpecChunk: <<"none">> before the call, <<"chunks", result>> after
  metrics,     \* BenchmarkManager.metrics: array of entries
  recorded,    \* every entry logged since the last clearMetrics, in order
  nextSeq,     \* number of logMetric calls made so far (stands for the entry id)
  matchIn,     \* the user input and tool list handed to the Matcher
  matchOut,    \* <<"none">> before findBestMatch, <<"match", result>> after
  lastInvocations, \* AgentRuntime.lastInvocations: array of match records
  agent,       \* the current process() call: where it stands and what it returned
  requests,    \* the HTTP requests issued by invokeTool, in order
  statIn,      \* SpecStats: the entries, window and clock handed to getStatistics
  stats,       \* the most recent getStatistics call and what it returned
  toolsPanelTools, \* ToolContext: the tools saved in the Tools panel
  toolsLog,    \* the TOOLS lines the Tools panel handed to onLog, newest last
  messages,    \* ChatPanel: the messages shown, by kind
  inputBox,    \* ChatPanel: the input state, the text in the input box
  isThinking,  \* ChatPanel: the flag that blocks a second send
  sending,     \* ChatPanel: where the handleSend call in flight stands
  mcpServers,  \* ToolContext: the MCP servers saved in the MCP panel
  testingServer, \* MCPPanel: the id in the testingServer state, 0 for null
  attempts     \* MCPPanel: the handleConnectServer calls in flight, by server id

storeVars   == <<documents, chunks, nextDocId, lastOp, pre>>
chunkVars   == <<text, splitOut>>
metricVars  == <<metrics, recorded, nextSeq>>
matchVars   == <<matchIn, matchOut>>
agentVars   == <<lastInvocations, agent, requests>>
statVars    == <<statIn, stats>>
toolVars    == <<toolsPanelTools, toolsLog>>
chatVars    == <<messages, inputBox, isThinking, sending>>
mcpVars     == <<mcpServers, testingServer, attempts>>
uiVars      == <<toolVars, chatVars, mcpVars>>
vars        == <<documents, chunks, nextDocId, lastOp, pre,
                 text, splitOut, metrics, recorded, nextSeq,
                 matchIn, matchOut, lastInvocations, agent, requests,
                 statIn, stats, toolsPanelTools, toolsLog,
                 messages, inputBox, isThinking, sending,
                 mcpServers, testingServer, attempts>>

----------------------------------------------------------------------------
(* Bounds and scaled sizes.                                                *)

\* this.chunkSize (500 in the source), scaled so that bounded texts overflow it
chunkSize == 5
\* this.chunkOverlap (50 in the source, i.e. 10 carried words), scaled to 2 words
chunkOverlap == 10
\* this.maxEntries (10000 in the source), scaled so that eviction happens
maxEntries == 3
\* longest text handed to splitIntoChunks in SpecChunk
MaxTextLen == 7
\* number of logMetric calls explored in SpecMetrics
MaxLogged == 6
\* number of addDocument calls explored in Spec
MaxDocId == 3
\* largest topK handed to searchSimilar
MaxTopK == 2
\* longest tool list handed to findBestMatch in SpecMatch
MaxTools == 2
\* number of matches explored in SpecLog
MaxMatches == 11
\* number of process() calls explored in SpecAgent
MaxCalls == 1
\* how long a pending request is watched in SpecAgent, in clock ticks
MaxElapsed == 2
\* tool.timeout (5000 ms by default in the Tools panel), scaled to clock ticks
toolTimeout == 1
\* longest series of entries handed to getStatistics in SpecStats
MaxSamples == 11

----------------------------------------------------------------------------
(* Characters and strings.                                                 *)

Min(a, b) == IF a < b THEN a ELSE b
Max(a, b) == IF a > b THEN a ELSE b

\* the characters matched by \s
IsSpace(c) == c \in {" ", "\n", "\t"}

LowerLetters == <<"a", "b", "c", "d", "e", "f", "g", "h", "i", "j", "k", "l", "m", "n", "o", "p", "q", "r", "s", "t", "u", "v", "w", "x", "y", "z">>
UpperLetters == <<"A", "B", "C", "D", "E", "F", "G", "H", "I", "J", "K", "L", "M", "N", "O", "P", "Q", "R", "S", "T", "U", "V", "W", "X", "Y", "Z">>
Digits == {"0", "1", "2", "3", "4", "5", "6", "7", "8", "9"}

\* position of c in the alphabet s, 0 when it is not in it
LetterIndex(s, c) ==
  IF \E i \in 1..Len(s) : s[i] = c THEN CHOOSE i \in 1..Len(s) : s[i] = c ELSE 0

\* the characters matched by \w
IsWordChar(c) ==
  \/ LetterIndex(LowerLetters, c) > 0
  \/ LetterIndex(UpperLetters, c) > 0
  \/ c \in Digits
  \/ c = "_"

\* String.prototype.toUpperCase on one character
ToUpper(c) ==
  IF LetterIndex(LowerLetters, c) > 0 THEN UpperLetters[LetterIndex(LowerLetters, c)] ELSE c

\* String.prototype.toLowerCase on one character
ToLower(c) ==
  IF LetterIndex(UpperLetters, c) > 0 THEN LowerLetters[LetterIndex(UpperLetters, c)] ELSE c

\* s.toLowerCase()
LowerStr(s) == [i \in 1..Len(s) |-> ToLower(s[i])]

\* s.toUpperCase()
UpperStr(s) == [i \in 1..Len(s) |-> ToUpper(s[i])]

RECURSIVE SplitFrom(_, _, _, _)
\* scan of s from position i: cur is the word being read, acc the words closed
SplitFrom(s, i, cur, acc) ==
  IF i > Len(s) THEN Append(acc, cur)
  ELSE IF IsSpace(s[i])
       THEN IF i > 1 /\ IsSpace(s[i - 1])
            THEN SplitFrom(s, i + 1, cur, acc)
            ELSE SplitFrom(s, i + 1, <<>>, Append(acc, cur))
       ELSE SplitFrom(s, i + 1, Append(cur, s[i]), acc)

\* s.split(/\s+/): a run of whitespace is one separator; a leading or trailing
\* run yields an empty first or last word; "" yields [""]
SplitWS(s) == SplitFrom(s, 1, <<>>, <<>>)

RECURSIVE Join(_)
\* words.join(' ')
Join(words) ==
  IF words = <<>> THEN <<>>
  ELSE IF Len(words) = 1 THEN words[1]
  ELSE words[1] \o <<" ">> \o Join(Tail(words))

\* array.slice(start) with 0-based start
SliceFrom(arr, start) == SubSeq(arr, start + 1, Len(arr))

----------------------------------------------------------------------------
(* MemoryManager.splitIntoChunks                                           *)

\* a carry-over that keeps nothing of the closed chunk
OverlapStartNone(currentChunk) == Len(currentChunk)

\* Math.max(0, currentChunk.length - Math.floor(this.chunkOverlap / 5))
OverlapStart(currentChunk) ==
  Max(0, Len(currentChunk) - (chunkOverlap \div 5))

\* currentLength + wordLength > this.chunkSize && currentChunk.length > 0
MustClose(currentLength, wordLength, currentChunk) ==
  currentLength + wordLength > chunkSize /\ Len(currentChunk) > 0

RECURSIVE ChunkLoop(_, _, _, _, _)
\* the for-loop over words, at word i, and the final push of the open chunk
ChunkLoop(words, i, currentChunk, currentLength, out) ==
  IF i > Len(words)
  THEN IF Len(currentChunk) > 0 THEN Append(out, Join(currentChunk)) ELSE out
  ELSE LET word       == words[i]
           wordLength == Len(word) + 1
       IN IF MustClose(currentLength, wordLength, currentChunk)
          THEN LET carried == SliceFrom(currentChunk, OverlapStart(currentChunk))
               IN ChunkLoop(words, i + 1,
                            Append(carried, word),
                            Len(Join(carried)) + wordLength,
                            Append(out, Join(currentChunk)))
          ELSE ChunkLoop(words, i + 1,
                         Append(currentChunk, word),
                         currentLength + wordLength,
                         out)

\* a split that forgets the chunk still open when the words run out
splitIntoChunksNoLast(t) ==
  LET out == ChunkLoop(SplitWS(t), 1, <<>>, 0, <<>>)
  IN SubSeq(out, 1, Len(out) - 1)

splitIntoChunks(t) == ChunkLoop(SplitWS(t), 1, <<>>, 0, <<>>)

----------------------------------------------------------------------------
(* Initial values of the three components.                                 *)

\* a store call: what was called (op), with which arguments, what it returned
\* or logged (outcome, results), and whether it is a deleteDocument of the id
\* that the call right before it, an addDocument, returned (undoesAdd)
Call(op, id, name, t, query, topK, outcome, results, prev) ==
  [op |-> op, id |-> id, name |-> name, text |-> t, query |-> query,
   topK |-> topK, outcome |-> outcome, results |-> results,
   undoesAdd |-> (op = "delete" /\ prev.op = "add" /\ prev.id = id)]

NoOp == Call("none", 0, <<>>, <<>>, <<>>, 0, "none", <<>>, [op |-> "none", id |-> 0])

EmptyStore == [documents |-> <<>>, chunks |-> <<>>, nextDocId |-> 1]

\* constructor(): empty Map, empty array, nextDocId = 1
StoreInit ==
  /\ documents = <<>>
  /\ chunks = <<>>
  /\ nextDocId = 1
  /\ lastOp = NoOp
  /\ pre = EmptyStore

\* BenchmarkManager constructor(): this.metrics = []
MetricsInit ==
  /\ metrics = <<>>
  /\ recorded = <<>>
  /\ nextSeq = 0

\* no text has been handed to splitIntoChunks
ChunkIdle ==
  /\ text = <<>>
  /\ splitOut = <<"none">>

\* nothing has been handed to the Matcher
MatchIdle ==
  /\ matchIn = [userInput |-> <<>>, tools |-> <<>>]
  /\ matchOut = <<"none">>

NoResult == [returned |-> FALSE]

\* no process() call has been made
IdleAgent ==
  [pc |-> "idle", calls |-> 0, userInput |-> <<>>, tools |-> <<>>, matched |-> 0,
   snippets |-> 0, elapsed |-> 0, fetch |-> "none",
   response |-> [status |-> 0, isJson |-> FALSE, readable |-> FALSE, type |-> "none"],
   result |-> NoResult]

\* getStatistics has not been called
StatIdle ==
  /\ statIn = [entries |-> <<>>, timeWindow |-> 0, now |-> 0]
  /\ stats = [called |-> FALSE]

\* ToolProvider: useState([]) for toolsPanelTools; no TOOLS line logged yet
ToolsIdle ==
  /\ toolsPanelTools = <<>>
  /\ toolsLog = <<>>

\* ChatPanel: the two messages of useState([...]), input "", isThinking false
ChatIdle ==
  /\ messages = <<"user", "llm">>
  /\ inputBox = <<>>
  /\ isThinking = FALSE
  /\ sending = "none"

\* ToolProvider: useState([]) for mcpServers; MCPPanel: useState(null) for
\* testingServer
McpIdle ==
  /\ mcpServers = <<>>
  /\ testingServer = 0
  /\ attempts = <<>>

UiIdle == ToolsIdle /\ ChatIdle /\ McpIdle

\* AgentRuntime constructor(): this.lastInvocations = []
AgentInit ==
  /\ lastInvocations = <<>>
  /\ agent = IdleAgent
  /\ requests = <<>>

----------------------------------------------------------------------------
(* SpecChunk: splitIntoChunks on every text of at most MaxTextLen          *)
(* characters over two letters and two kinds of whitespace.                *)

ChunkAlphabet == {"a", "b", " ", "\n"}

ChunkTexts == UNION {[1..n -> ChunkAlphabet] : n \in 0..MaxTextLen}

ChunkInit ==
  /\ text \in ChunkTexts
  /\ splitOut = <<"none">>
  /\ StoreInit
  /\ MetricsInit
  /\ MatchIdle
  /\ AgentInit
  /\ StatIdle
  /\ UiIdle

\* const chunks = this.splitIntoChunks(text)
SplitText ==
  /\ splitOut = <<"none">>
  /\ splitOut' = <<"chunks", splitIntoChunks(text)>>
  /\ UNCHANGED <<text, storeVars, metricVars, matchVars, agentVars, statVars, uiVars>>

ChunkNext == SplitText

SpecChunk == ChunkInit /\ [][ChunkNext]_vars

SplitDone == splitOut[1] = "chunks"
SplitChunks == splitOut[2]

RECURSIVE SumLen(_)
SumLen(seqs) == IF seqs = <<>> THEN 0 ELSE Len(Head(seqs)) + SumLen(Tail(seqs))

\* the words of chunk i that were not carried over from chunk i-1: all of them
\* for the first chunk, otherwise what follows the first min(floor(chunkOverlap/5),
\* number of words of chunk i-1) words
OwnWords(cs, i) ==
  IF i = 1 THEN SplitWS(cs[1])
  ELSE LET prevWords == SplitWS(cs[i - 1])
           k         == Min(chunkOverlap \div 5, Len(prevWords))
       IN SliceFrom(SplitWS(cs[i]), k)

RECURSIVE ConcatOwn(_, _)
ConcatOwn(cs, i) ==
  IF i > Len(cs) THEN <<>> ELSE OwnWords(cs, i) \o ConcatOwn(cs, i + 1)

\* C4: every chunk produced by splitIntoChunks is at most chunkSize characters
\* long.
C4_ChunkWithinSize ==
  SplitDone => \A i \in 1..Len(SplitChunks) : Len(SplitChunks[i]) <= chunkSize

\* C5: removing from each chunk after the first its carried-over prefix and
\* concatenating what remains, in chunk order, yields exactly the
\* whitespace-split word sequence of the original text.
C5_LosslessModuloOverlap ==
  SplitDone => ConcatOwn(SplitChunks, 1) = SplitWS(text)

\* C5 witness: a text split into three or more chunks, one of which holds
\* more words than are carried over to the next one.
C5_Witness ==
  /\ SplitDone
  /\ Len(SplitChunks) >= 3
  /\ \E i \in 1..(Len(SplitChunks) - 1) :
        Len(SplitWS(SplitChunks[i])) > chunkOverlap \div 5

\* C6 (as stated): the chunk lengths of a text sum to at least the length of
\* the text.
C6_SumAtLeastTextLength ==
  SplitDone => SumLen(SplitChunks) >= Len(text)

\* C6 (amended): the chunk lengths of a text sum to at least the length of the
\* text with every run of whitespace collapsed to one space.
C6_SumAtLeastCollapsedLength ==
  SplitDone => SumLen(SplitChunks) >= Len(Join(SplitWS(text)))

\* C6 witness: a text with a whitespace run of two or more characters that is
\* split into several chunks.
C6_Witness ==
  /\ SplitDone
  /\ Len(SplitChunks) >= 2
  /\ Len(Join(SplitWS(text))) < Len(text)

----------------------------------------------------------------------------
(* BenchmarkManager: logMetric and clearMetrics.                           *)

\* categories, names and values as callers pass them (AgentRuntime logs
\* 'RAG' and 'TOOLS' metrics); a category or name may come in either case
MetricCategories == {<<"R", "A", "G">>, <<"r", "a", "g">>, <<"T", "O", "O", "L", "S">>}
MetricNames == {<<"s", "u", "c", "c", "e", "s", "s", "_", "r", "a", "t", "e">>, <<"S", "u", "c", "c", "e", "s", "s", "_", "R", "a", "t", "e">>}
MetricValues == {0, 1}

\* the categories and names AgentRuntime logs
RAG == <<"R", "A", "G">>
TOOLS == <<"T", "O", "O", "L", "S">>
retrieval_time == <<"r", "e", "t", "r", "i", "e", "v", "a", "l", "_", "t", "i", "m", "e">>
context_snippets == <<"c", "o", "n", "t", "e", "x", "t", "_", "s", "n", "i", "p", "p", "e", "t", "s">>
execution_time == <<"e", "x", "e", "c", "u", "t", "i", "o", "n", "_", "t", "i", "m", "e">>
success_rate == <<"s", "u", "c", "c", "e", "s", "s", "_", "r", "a", "t", "e">>
\* a prune that keeps the oldest maxEntries entries
AutoPruneKeepOldest(ms) ==
  IF Len(ms) > maxEntries THEN SubSeq(ms, 1, maxEntries) ELSE ms

\* if (this.metrics.length > this.maxEntries)
\*   this.metrics.splice(0, this.metrics.length - this.maxEntries)
AutoPrune(ms) ==
  IF Len(ms) > maxEntries
  THEN SubSeq(ms, (Len(ms) - maxEntries) + 1, Len(ms))
  ELSE ms

\* the entry built by logMetric; id and timestamp are the call's serial number,
\* and parseFloat of a number is that number
MetricEntry(seq, category, name, value) ==
  [id |-> seq, timestamp |-> seq, category |-> UpperStr(category),
   name |-> LowerStr(name), value |-> value]

\* logMetric(category, name, value)
LogMetric(category, name, value) ==
  /\ nextSeq < MaxLogged
  /\ LET entry == MetricEntry(nextSeq + 1, category, name, value)
     IN /\ metrics' = AutoPrune(Append(metrics, entry))
        /\ recorded' = Append(recorded, entry)
  /\ nextSeq' = nextSeq + 1
  /\ UNCHANGED <<storeVars, chunkVars, matchVars, agentVars, statVars, uiVars>>

\* clearMetrics(): this.metrics = []
ClearMetrics ==
  /\ metrics' = <<>>
  /\ recorded' = <<>>
  /\ UNCHANGED <<nextSeq, storeVars, chunkVars, matchVars, agentVars, statVars, uiVars>>

\* numbers as getStatistics computes them: a finite value is the exact
\* fraction num/den (den > 0), and a division by zero gives Infinity,
\* -Infinity or NaN as IEEE 754 division does
Finite(n, d) == [kind |-> "finite", num |-> n, den |-> d]
NotFinite(kind) == [kind |-> kind, num |-> 0, den |-> 1]

\* a - b for finite a and b
Minus(a, b) == Finite((a.num * b.den) - (b.num * a.den), a.den * b.den)

\* a / b for finite a and b
Divide(a, b) ==
  IF b.num = 0
  THEN IF a.num = 0 THEN NotFinite("NaN")
       ELSE IF a.num > 0 THEN NotFinite("Infinity") ELSE NotFinite("-Infinity")
  ELSE IF b.num > 0
       THEN Finite(a.num * b.den, a.den * b.num)
       ELSE Finite(0 - (a.num * b.den), 0 - (a.den * b.num))

\* a * k for an integer k > 0
Times(a, k) == IF a.kind = "finite" THEN Finite(a.num * k, a.den) ELSE a

RECURSIVE SumSeq(_)
\* values.reduce((a, b) => a + b, 0)
SumSeq(values) ==
  IF values = <<>> THEN 0 ELSE values[1] + SumSeq(Tail(values))

\* the mean of a non-empty array of integers
Mean(values) == Finite(SumSeq(values), Len(values))

MinOf(values) == CHOOSE v \in {values[i] : i \in 1..Len(values)} :
                   \A i \in 1..Len(values) : v <= values[i]
MaxOf(values) == CHOOSE v \in {values[i] : i \in 1..Len(values)} :
                   \A i \in 1..Len(values) : v >= values[i]

RECURSIVE SortedFrom(_, _)
\* [...values].sort((a, b) => a - b): the values from v on, in ascending order
SortedFrom(values, v) ==
  IF v > MaxOf(values) THEN <<>>
  ELSE SelectSeq(values, LAMBDA x : x = v) \o SortedFrom(values, v + 1)

\* calculateMedian(values)
calculateMedian(values) ==
  LET sorted == SortedFrom(values, MinOf(values))
      mid    == Len(sorted) \div 2
  IN IF Len(sorted) % 2 = 0
     THEN Finite(sorted[mid] + sorted[mid + 1], 2)
     ELSE Finite(sorted[mid + 1], 1)

\* the least number of samples for which a trend is computed
TrendMinSamples == 10

\* trend: ((secondAvg - firstAvg) / firstAvg) * 100 from 10 samples on
Trend(values) ==
  IF Len(values) >= TrendMinSamples
  THEN LET midpoint  == Len(values) \div 2
           firstAvg  == Mean(SubSeq(values, 1, midpoint))
           secondAvg == Mean(SubSeq(values, midpoint + 1, Len(values)))
       IN Times(Divide(Minus(secondAvg, firstAvg), firstAvg), 100)
  ELSE Finite(0, 1)

\* a category filter that lets every entry through
getCategoryMetricsAll(ms, category, timeWindow, now) ==
  IF timeWindow # 0
  THEN SelectSeq(ms, LAMBDA m : m.timestamp > now - timeWindow)
  ELSE ms

\* getCategoryMetrics(category, timeWindow) on the entries ms at time now;
\* timeWindow 0 stands for null (both are falsy)
getCategoryMetrics(ms, category, timeWindow, now) ==
  LET filtered == SelectSeq(ms, LAMBDA m : m.category = UpperStr(category))
  IN IF timeWindow # 0
     THEN SelectSeq(filtered, LAMBDA m : m.timestamp > now - timeWindow)
     ELSE filtered

\* the object returned for no matching entry; keys are its property names
EmptyStatistics ==
  [keys |-> {"count", "average", "min", "max", "latest", "trend"},
   count |-> 0, average |-> Finite(0, 1), min |-> Finite(0, 1),
   max |-> Finite(0, 1), latest |-> Finite(0, 1), trend |-> Finite(0, 1),
   median |-> Finite(0, 1)]

\* getStatistics(category, metricName, timeWindow) on the entries ms at time now
getStatistics(ms, category, metricName, timeWindow, now) ==
  LET found  == SelectSeq(getCategoryMetrics(ms, category, timeWindow, now),
                          LAMBDA m : m.name = LowerStr(metricName))
      values == [i \in 1..Len(found) |-> found[i].value]
  IN IF Len(found) = 0
     THEN EmptyStatistics
     ELSE [keys |-> {"count", "average", "min", "max", "latest", "trend", "median"},
           count |-> Len(values), average |-> Mean(values),
           min |-> Finite(MinOf(values), 1), max |-> Finite(MaxOf(values), 1),
           latest |-> Finite(values[Len(values)], 1), trend |-> Trend(values),
           median |-> calculateMedian(values)]

\* the categories and names asked for: one that is logged, in another case,
\* and one that never is
StatCategories == {<<"t", "o", "o", "l", "s">>, <<"C", "H", "A", "T">>}
StatNames == {<<"S", "u", "c", "c", "e", "s", "s", "_", "R", "a", "t", "e">>}

\* getStatistics(category, metricName) on the metrics log
GetStatistics(category, metricName) ==
  /\ stats' = [called |-> TRUE, category |-> category, name |-> metricName,
               at |-> nextSeq,
               result |-> getStatistics(metrics, category, metricName, 0, nextSeq)]
  /\ UNCHANGED <<statIn, metricVars, storeVars, chunkVars, matchVars, agentVars, uiVars>>

MetricsNext ==
  \/ \E c \in MetricCategories, n \in MetricNames, v \in MetricValues :
        LogMetric(c, n, v)
  \/ ClearMetrics

SpecMetricsInit ==
  /\ MetricsInit
  /\ StoreInit
  /\ ChunkIdle
  /\ MatchIdle
  /\ AgentInit
  /\ StatIdle
  /\ UiIdle

SpecMetrics == SpecMetricsInit /\ [][MetricsNext]_vars

\* SpecStatLog: getStatistics between logMetric and clearMetrics calls, for
\* entries of two categories under one name
StatLogNext ==
  \/ \E c \in {RAG, TOOLS} : LogMetric(c, success_rate, 1)
  \/ ClearMetrics
  \/ \E c \in StatCategories, n \in StatNames : GetStatistics(c, n)

SpecStatLog == SpecMetricsInit /\ [][StatLogNext]_vars

\* SpecStats: getStatistics('tools', 'Success_Rate', timeWindow) on every
\* series of at most MaxSamples success_rate values, alone or between an entry
\* of another name and one of another category, with and without a time window.
StatValues == {0, 1}

StatSeries == UNION {[1..n -> StatValues] : n \in 0..MaxSamples}

\* entries as logMetric leaves them, stamped with their position
Stamped(es) == [i \in 1..Len(es) |-> [es[i] EXCEPT !.id = i, !.timestamp = i]]

SeriesEntries(values, noise) ==
  LET base == [i \in 1..Len(values) |-> MetricEntry(i, TOOLS, success_rate, values[i])]
  IN Stamped(IF noise
             THEN <<MetricEntry(0, TOOLS, execution_time, 1)>>
                    \o Append(base, MetricEntry(0, RAG, success_rate, 1))
             ELSE base)

\* no window, or a window that reaches TrendMinSamples clock ticks back
StatWindows == {0, TrendMinSamples}

StatInit ==
  /\ statIn \in {[entries |-> SeriesEntries(v, n), timeWindow |-> w,
                   now |-> Len(v) + (IF n THEN 2 ELSE 0)] :
                     v \in StatSeries, n \in BOOLEAN,
                     w \in StatWindows}
  /\ stats = [called |-> FALSE]
  /\ StoreInit
  /\ MetricsInit
  /\ ChunkIdle
  /\ MatchIdle
  /\ AgentInit
  /\ UiIdle

ToolsQuery == <<"t", "o", "o", "l", "s">>
SuccessRateQuery == <<"S", "u", "c", "c", "e", "s", "s", "_", "R", "a", "t", "e">>

ApplyStatistics ==
  /\ ~stats.called
  /\ stats' = [called |-> TRUE, category |-> ToolsQuery, name |-> SuccessRateQuery,
               at |-> statIn.now,
               result |-> getStatistics(statIn.entries, ToolsQuery, SuccessRateQuery,
                                        statIn.timeWindow, statIn.now)]
  /\ UNCHANGED <<statIn, metricVars, storeVars, chunkVars, matchVars, agentVars, uiVars>>

StatNext == ApplyStatistics

SpecStats == StatInit /\ [][StatNext]_vars

\* C1: the metrics store holds exactly the most recent min(N, maxEntries) of
\* the N entries recorded since the last clear, in insertion order, and never
\* more than maxEntries entries.
C1_StoreIsNewestWindow ==
  LET n == Len(recorded)
      k == Min(n, maxEntries)
  IN /\ Len(metrics) <= maxEntries
     /\ metrics = SubSeq(recorded, (n - k) + 1, n)

\* C1 witness: after a clear, more than maxEntries entries have been recorded,
\* so the first of them has been evicted.
C1_Witness ==
  /\ Len(recorded) > maxEntries
  /\ nextSeq > Len(recorded)
  /\ Len(metrics) = maxEntries

----------------------------------------------------------------------------
(* MemoryManager: tokenization, word frequencies, cosine similarity.       *)

\* .replace(/[^\w\s]/g, ' ') on one character
Depunctuate(c) == IF IsWordChar(c) \/ IsSpace(c) THEN c ELSE " "

\* array.filter(word => word.length > 2)
RECURSIVE LongWords(_)
LongWords(words) ==
  IF words = <<>> THEN <<>>
  ELSE IF Len(Head(words)) > 2
       THEN <<Head(words)>> \o LongWords(Tail(words))
       ELSE LongWords(Tail(words))

\* tokenize(text): lower-case, punctuation to spaces, split, drop short words
tokenize(t) ==
  LongWords(SplitWS([i \in 1..Len(t) |-> Depunctuate(ToLower(t[i]))]))

\* calculateWordFrequency(words): the Map word -> number of occurrences
calculateWordFrequency(words) ==
  [w \in {words[i] : i \in 1..Len(words)} |->
      Cardinality({i \in 1..Len(words) : words[i] = w})]

\* freq.get(word) || 0
FreqGet(freq, w) == IF w \in DOMAIN freq THEN freq[w] ELSE 0

RECURSIVE SumOver(_, _, _)
\* the accumulation loop "for (const word of allWords)" of one of the three sums
SumOver(ws, f1, f2) ==
  IF ws = {} THEN 0
  ELSE LET w == CHOOSE x \in ws : TRUE
       IN FreqGet(f1, w) * FreqGet(f2, w) + SumOver(ws \ {w}, f1, f2)

\* calculateSimilarity(freq1, freq2).  The cosine dot / (sqrt(m1) * sqrt(m2)) is
\* not negative, so it is carried exactly as its square, the fraction
\* num / den = dot^2 / (m1 * m2); 0 is 0/1.
calculateSimilarity(freq1, freq2) ==
  IF DOMAIN freq1 = {} \/ DOMAIN freq2 = {} THEN [num |-> 0, den |-> 1]
  ELSE LET allWords   == DOMAIN freq1 \cup DOMAIN freq2
           dotProduct == SumOver(allWords, freq1, freq2)
           magnitude1 == SumOver(allWords, freq1, freq1)
           magnitude2 == SumOver(allWords, freq2, freq2)
       IN IF magnitude1 = 0 \/ magnitude2 = 0 THEN [num |-> 0, den |-> 1]
          ELSE [num |-> dotProduct * dotProduct, den |-> magnitude1 * magnitude2]

\* x > y, x = y on similarities
SimGT(x, y) == x.num * y.den > y.num * x.den
SimEQ(x, y) == x.num * y.den = y.num * x.den

\* a threshold that lets every score through
AboveThresholdAny(x) == TRUE

\* result.similarity > 0.1, i.e. similarity^2 > 1/100
AboveThreshold(x) == 100 * x.num > x.den

----------------------------------------------------------------------------
(* MemoryManager: addDocument, deleteDocument, clearMemory, reembedAll.    *)

\* the chunk record built in addDocument for chunk number index (0-based)
ProcessedChunk(docId, name, chunk, index) ==
  LET words == tokenize(chunk)
  IN [id |-> <<docId, index>>, docId |-> docId, docName |-> name,
      text |-> chunk, words |-> words,
      wordFreq |-> calculateWordFrequency(words),
      wordCount |-> Len(words), index |-> index]

\* chunks.map((chunk, index) => ...)
ProcessedChunks(docId, name, cs) ==
  [i \in 1..Len(cs) |-> ProcessedChunk(docId, name, cs[i], i - 1)]

\* docInfo
DocInfo(docId, name, t, cs) ==
  [id |-> docId, name |-> name, text |-> t, size |-> Len(t),
   chunkCount |-> Len(cs)]

\* a filter that removes nothing
FilterOutDocNone(arr, docId) == arr

\* this.chunks.filter(c => c.docId !== docId), keeping order
FilterOutDoc(arr, docId) ==
  SelectSeq(arr, LAMBDA c : c.docId # docId)

Snapshot == [documents |-> documents, chunks |-> chunks, nextDocId |-> nextDocId]

\* a membership test that always succeeds
HasDocAlways(docs, docId) == TRUE

\* this.documents.has(docId)
HasDoc(docs, docId) == \E i \in 1..Len(docs) : docs[i].id = docId

\* getStats(): documents, chunks, size
getStats(docs, cs) ==
  LET RECURSIVE SizeSum(_)
      SizeSum(ds) == IF ds = <<>> THEN 0 ELSE Head(ds).size + SizeSum(Tail(ds))
  IN [documents |-> Len(docs), chunks |-> Len(cs), size |-> SizeSum(docs)]

\* String.prototype.trim()
RECURSIVE TrimLeft(_)
TrimLeft(s) ==
  IF s # <<>> /\ IsSpace(Head(s)) THEN TrimLeft(Tail(s)) ELSE s

RECURSIVE TrimRight(_)
TrimRight(s) ==
  IF s # <<>> /\ IsSpace(s[Len(s)]) THEN TrimRight(SubSeq(s, 1, Len(s) - 1)) ELSE s

Trim(s) == TrimRight(TrimLeft(s))

\* this.documents.set(docId, docInfo): a new key goes last, a known key keeps
\* its place
MapSet(docs, docInfo) ==
  IF HasDoc(docs, docInfo.id)
  THEN [i \in 1..Len(docs) |-> IF docs[i].id = docInfo.id THEN docInfo ELSE docs[i]]
  ELSE Append(docs, docInfo)

\* this.documents.delete(docId)
MapDelete(docs, docId) == SelectSeq(docs, LAMBDA d : d.id # docId)

\* the history kept beside the store: every call records the store it started
\* from
Shift == pre' = Snapshot

\* the documents, panel form contents and queries explored
DocInputs == {[name |-> <<>>, text |-> <<>>],
              [name |-> <<"n">>, text |-> <<"A", "a", "a", ".", " ", "a", "a", "a">>],
              [name |-> <<"n">>, text |-> <<"b", "b", "b", " ", " ", "c", "c", "c">>]}
PanelNames == {<<" ">>, <<"n", " ">>}
PanelContents == {<<>>, <<"\n", "b", "b", "b", " ">>}
Queries == {<<>>, <<"a", "a", "a">>, <<"B", "b", "b", " ", "c", "c", "c">>}

\* an addDocument that hands out the smallest id no stored document holds
AddDocumentReusesId(name, t) ==
  /\ nextDocId <= MaxDocId
  /\ LET docId == CHOOSE k \in 1..nextDocId :
                    /\ ~HasDoc(documents, k)
                    /\ \A j \in 1..(k - 1) : HasDoc(documents, j)
         cs    == splitIntoChunks(t)
     IN /\ nextDocId' = nextDocId + 1
        /\ documents' = MapSet(documents, DocInfo(docId, name, t, cs))
        /\ chunks' = chunks \o ProcessedChunks(docId, name, cs)
        /\ lastOp' = Call("add", docId, name, t, <<>>, 0, "returned", <<>>, lastOp)
  /\ Shift
  /\ UNCHANGED <<chunkVars, metricVars, matchVars, agentVars, statVars, uiVars>>

\* MemoryManager.addDocument(name, text), reached through MemoryContext.addDocument
AddDocument(name, t) ==
  /\ nextDocId <= MaxDocId
  /\ LET docId == nextDocId
         cs    == splitIntoChunks(t)
     IN /\ nextDocId' = nextDocId + 1
        /\ documents' = MapSet(documents, DocInfo(docId, name, t, cs))
        /\ chunks' = chunks \o ProcessedChunks(docId, name, cs)
        /\ lastOp' = Call("add", docId, name, t, <<>>, 0, "returned", <<>>, lastOp)
  /\ Shift
  /\ UNCHANGED <<chunkVars, metricVars, matchVars, agentVars, statVars, uiVars>>

\* RAGPanel.handleAddDocument with formData = {name, content}: an empty trimmed
\* field is logged as an error and the handler returns
HandleAddDocument(name, content) ==
  IF Trim(name) = <<>> \/ Trim(content) = <<>>
  THEN /\ lastOp' = Call("handleAdd", 0, name, content, <<>>, 0, "error logged",
                         <<>>, lastOp)
       /\ Shift
       /\ UNCHANGED <<documents, chunks, nextDocId, chunkVars, metricVars, matchVars, agentVars, statVars, uiVars>>
  ELSE AddDocument(Trim(name), Trim(content))

\* MemoryManager.deleteDocument(docId)
DeleteDocument(docId) ==
  /\ IF ~HasDoc(documents, docId)
     THEN /\ lastOp' = Call("delete", docId, <<>>, <<>>, <<>>, 0, "false", <<>>, lastOp)
          /\ UNCHANGED <<documents, chunks>>
     ELSE /\ documents' = MapDelete(documents, docId)
          /\ chunks' = FilterOutDoc(chunks, docId)
          /\ lastOp' = Call("delete", docId, <<>>, <<>>, <<>>, 0, "true", <<>>, lastOp)
  /\ Shift
  /\ UNCHANGED <<nextDocId, chunkVars, metricVars, matchVars, agentVars, statVars, uiVars>>

\* a clear that empties the Map and forgets the chunk array
ClearMemoryKeepsChunks ==
  /\ documents' = <<>>
  /\ lastOp' = Call("clear", 0, <<>>, <<>>, <<>>, 0, "returned", <<>>, lastOp)
  /\ Shift
  /\ UNCHANGED <<chunks, nextDocId, chunkVars, metricVars, matchVars, agentVars, statVars, uiVars>>

\* MemoryManager.clearMemory()
ClearMemory ==
  /\ documents' = <<>>
  /\ chunks' = <<>>
  /\ lastOp' = Call("clear", 0, <<>>, <<>>, <<>>, 0, "returned", <<>>, lastOp)
  /\ Shift
  /\ UNCHANGED <<nextDocId, chunkVars, metricVars, matchVars, agentVars, statVars, uiVars>>

\* a re-embedding that splits the text without normalising it
ReembeddedRaw(c) ==
  LET words == SplitWS(c.text)
  IN [c EXCEPT !.words = words,
               !.wordFreq = calculateWordFrequency(words),
               !.wordCount = Len(words)]

\* one chunk after "chunk.words = ...; chunk.wordFreq = ...; chunk.wordCount = ..."
Reembedded(c) ==
  LET words == tokenize(c.text)
  IN [c EXCEPT !.words = words,
               !.wordFreq = calculateWordFrequency(words),
               !.wordCount = Len(words)]

\* MemoryManager.reembedAll()
ReembedAll ==
  /\ chunks' = [i \in 1..Len(chunks) |-> Reembedded(chunks[i])]
  /\ lastOp' = Call("reembed", 0, <<>>, <<>>, <<>>, 0, "returned", <<>>, lastOp)
  /\ Shift
  /\ UNCHANGED <<documents, nextDocId, chunkVars, metricVars, matchVars, agentVars, statVars, uiVars>>

----------------------------------------------------------------------------
(* MemoryManager.searchSimilar                                             *)

\* { ...chunk, similarity: score }
WithSimilarity(c, score) ==
  [f \in DOMAIN c \cup {"similarity"} |->
      IF f = "similarity" THEN score ELSE c[f]]

\* an insertion that puts x in front of the entries it ties with
RECURSIVE InsertBeforeEqual(_, _)
InsertBeforeEqual(sorted, x) ==
  IF sorted = <<>> THEN <<x>>
  ELSE IF ~SimGT(Head(sorted).similarity, x.similarity)
       THEN <<x>> \o sorted
       ELSE <<Head(sorted)>> \o InsertBeforeEqual(Tail(sorted), x)

\* one step of the stable sort under (a, b) => b.similarity - a.similarity:
\* x goes behind every entry whose similarity is not smaller than its own
RECURSIVE InsertBySimilarity(_, _)
InsertBySimilarity(sorted, x) ==
  IF sorted = <<>> THEN <<x>>
  ELSE IF SimGT(x.similarity, Head(sorted).similarity)
       THEN <<x>> \o sorted
       ELSE <<Head(sorted)>> \o InsertBySimilarity(Tail(sorted), x)

\* scoredChunks.sort((a, b) => b.similarity - a.similarity); Array.prototype.sort
\* is stable
RECURSIVE SortFrom(_, _, _)
SortFrom(arr, i, sorted) ==
  IF i > Len(arr) THEN sorted
  ELSE SortFrom(arr, i + 1, InsertBySimilarity(sorted, arr[i]))

SortBySimilarity(arr) == SortFrom(arr, 1, <<>>)

\* .slice(0, topK) for topK >= 0
SliceTopK(arr, topK) == SubSeq(arr, 1, Min(topK, Len(arr)))

\* searchSimilar(query, topK) on the chunk array cs
searchSimilar(cs, query, topK) ==
  IF Len(cs) = 0 THEN <<>>
  ELSE LET queryWords   == tokenize(query)
           queryFreq    == calculateWordFrequency(queryWords)
           scoredChunks ==
             [i \in 1..Len(cs) |->
                WithSimilarity(cs[i], calculateSimilarity(queryFreq, cs[i].wordFreq))]
       IN SelectSeq(SliceTopK(SortBySimilarity(scoredChunks), topK),
                    LAMBDA r : AboveThreshold(r.similarity))

\* MemoryManager.searchSimilar(query, topK), reached through MemoryContext
SearchSimilar(query, topK) ==
  /\ lastOp' = Call("search", 0, <<>>, <<>>, query, topK, "returned",
                    searchSimilar(chunks, query, topK), lastOp)
  /\ Shift
  /\ UNCHANGED <<documents, chunks, nextDocId, chunkVars, metricVars, matchVars, agentVars, statVars, uiVars>>

----------------------------------------------------------------------------
(* Spec: the memory store under every interleaving of its calls.           *)

Init ==
  /\ StoreInit
  /\ MetricsInit
  /\ ChunkIdle
  /\ MatchIdle
  /\ AgentInit
  /\ StatIdle
  /\ UiIdle

Next ==
  \/ \E d \in DocInputs : AddDocument(d.name, d.text)
  \/ \E n \in PanelNames, c \in PanelContents : HandleAddDocument(n, c)
  \/ \E id \in 1..(MaxDocId + 1) : DeleteDocument(id)
  \/ ClearMemory
  \/ ReembedAll
  \/ \E q \in Queries, k \in 0..MaxTopK : SearchSimilar(q, k)

Spec == Init /\ [][Next]_vars

----------------------------------------------------------------------------
(* AgentRuntime (src/unnamed/part_002): tool matching.                     *)

\* hay.includes(needle)
Includes(hay, needle) ==
  \E i \in 0..(Len(hay) - Len(needle)) : SubSeq(hay, i + 1, i + Len(needle)) = needle

\* this.intentKeywords, in declaration order
intentKeywords ==
  <<[name |-> "weather",
    keywords |-> <<<<"w", "e", "a", "t", "h", "e", "r">>,
                 <<"t", "e", "m", "p", "e", "r", "a", "t", "u", "r", "e">>,
                 <<"f", "o", "r", "e", "c", "a", "s", "t">>,
                 <<"r", "a", "i", "n">>,
                 <<"s", "u", "n", "n", "y">>,
                 <<"c", "l", "o", "u", "d", "y">>>>],
   [name |-> "search",
    keywords |-> <<<<"s", "e", "a", "r", "c", "h">>,
                 <<"f", "i", "n", "d">>,
                 <<"l", "o", "o", "k", " ", "u", "p">>,
                 <<"g", "o", "o", "g", "l", "e">>,
                 <<"q", "u", "e", "r", "y">>>>],
   [name |-> "translate",
    keywords |-> <<<<"t", "r", "a", "n", "s", "l", "a", "t", "e">>,
                 <<"t", "r", "a", "n", "s", "l", "a", "t", "i", "o", "n">>,
                 <<"l", "a", "n", "g", "u", "a", "g", "e">>,
                 <<"c", "o", "n", "v", "e", "r", "t", " ", "t", "o">>>>],
   [name |-> "summarize",
    keywords |-> <<<<"s", "u", "m", "m", "a", "r", "i", "z", "e">>,
                 <<"s", "u", "m", "m", "a", "r", "y">>,
                 <<"s", "u", "m", "m", "a", "r", "i", "s", "e">>,
                 <<"b", "r", "i", "e", "f">>,
                 <<"o", "v", "e", "r", "v", "i", "e", "w">>>>],
   [name |-> "api",
    keywords |-> <<<<"f", "e", "t", "c", "h">>,
                 <<"g", "e", "t">>,
                 <<"r", "e", "q", "u", "e", "s", "t">>,
                 <<"a", "p", "i">>,
                 <<"e", "n", "d", "p", "o", "i", "n", "t">>,
                 <<"d", "a", "t", "a">>>>],
   [name |-> "news",
    keywords |-> <<<<"n", "e", "w", "s">>,
                 <<"l", "a", "t", "e", "s", "t">>,
                 <<"c", "u", "r", "r", "e", "n", "t">>,
                 <<"h", "e", "a", "d", "l", "i", "n", "e", "s">>>>],
   [name |-> "time",
    keywords |-> <<<<"t", "i", "m", "e">>,
                 <<"d", "a", "t", "e">>,
                 <<"w", "h", "e", "n">>,
                 <<"s", "c", "h", "e", "d", "u", "l", "e">>>>],
   [name |-> "calc",
    keywords |-> <<<<"c", "a", "l", "c", "u", "l", "a", "t", "e">>,
                 <<"c", "o", "m", "p", "u", "t", "e">>,
                 <<"m", "a", "t", "h">>,
                 <<"+">>,
                 <<"-">>,
                 <<"*">>,
                 <<"/">>>>]>>

\* stopWords of extractKeywords
stopWords ==
  {<<"t", "h", "e">>,
   <<"a">>,
   <<"a", "n">>,
   <<"a", "n", "d">>,
   <<"o", "r">>,
   <<"b", "u", "t">>,
   <<"i", "n">>,
   <<"o", "n">>,
   <<"a", "t">>,
   <<"t", "o">>,
   <<"f", "o", "r">>,
   <<"o", "f">>,
   <<"w", "i", "t", "h">>,
   <<"b", "y">>}

\* userInput.toLowerCase().trim()
NormalizeInput(userInput) == Trim(LowerStr(userInput))

\* extractKeywords(text): [] for an empty text, otherwise the whitespace-split
\* words longer than 2 characters that are no stop word, lower-cased
extractKeywords(t) ==
  IF t = <<>> THEN <<>>
  ELSE LET kept == SelectSeq(SplitWS(t), LAMBDA w : Len(w) > 2 /\ w \notin stopWords)
       IN [i \in 1..Len(kept) |-> LowerStr(kept[i])]

\* AgentRuntime.calculateSimilarity(input, keywords): matches / keywords.length
\* as the fraction num / den; 0 is 0/1
keywordScore(input, keywords) ==
  IF Len(keywords) = 0 THEN [num |-> 0, den |-> 1]
  ELSE [num |-> Cardinality({i \in 1..Len(keywords) : Includes(input, keywords[i])}),
        den |-> Len(keywords)]

\* keywords.filter(keyword => input.includes(keyword)).length
IntentMatches(input, intent) ==
  Cardinality({i \in 1..Len(intent.keywords) : Includes(input, intent.keywords[i])})

RECURSIVE DetectFrom(_, _, _, _)
\* the loop of detectIntent at entry i, with the best intent so far (0: none)
DetectFrom(input, i, bestIntent, bestMatchCount) ==
  IF i > Len(intentKeywords) THEN bestIntent
  ELSE LET matches == IntentMatches(input, intentKeywords[i])
       IN IF matches > bestMatchCount
          THEN DetectFrom(input, i + 1, i, matches)
          ELSE DetectFrom(input, i + 1, bestIntent, bestMatchCount)

\* detectIntent(input): the index of the detected intent in intentKeywords,
\* 0 for null
detectIntent(input) == DetectFrom(input, 1, 0, 0)

\* (tool.description || '').toLowerCase()
DescriptionOf(tool) == LowerStr(tool.description)

\* `${tool.name} ${tool.description || ''}`.toLowerCase()
ToolText(tool) == LowerStr(tool.name \o <<" ">> \o tool.description)

\* a name strategy that does not skip inactive tools
NameMatchIgnoringActive(input, tools) ==
  LET hits == {i \in 1..Len(tools) : Includes(input, LowerStr(tools[i].name))}
  IN IF hits = {} THEN 0 ELSE CHOOSE i \in hits : \A j \in hits : i <= j

\* strategy 1: the first active tool whose lower-cased name the input includes
\* (0: none)
NameMatch(input, tools) ==
  LET hits == {i \in 1..Len(tools) :
                 tools[i].active /\ Includes(input, LowerStr(tools[i].name))}
  IN IF hits = {} THEN 0 ELSE CHOOSE i \in hits : \A j \in hits : i <= j

\* a comparison that also replaces the best match on an equal score
BetterOrEqualScore(score, bestScore) ==
  /\ score.num * bestScore.den >= bestScore.num * score.den
  /\ 10 * score.num > 3 * score.den

\* score > bestScore && score > 0.3
BetterScore(score, bestScore) ==
  /\ score.num * bestScore.den > bestScore.num * score.den
  /\ 10 * score.num > 3 * score.den

RECURSIVE DescriptionFrom(_, _, _, _, _)
\* strategy 2: the loop over tools at tool i, with bestMatch (0: null) and
\* bestScore
DescriptionFrom(input, tools, i, bestMatch, bestScore) ==
  IF i > Len(tools) THEN [idx |-> bestMatch, score |-> bestScore]
  ELSE IF ~tools[i].active
       THEN DescriptionFrom(input, tools, i + 1, bestMatch, bestScore)
       ELSE LET score == keywordScore(input, extractKeywords(DescriptionOf(tools[i])))
            IN IF BetterScore(score, bestScore)
               THEN DescriptionFrom(input, tools, i + 1, i, score)
               ELSE DescriptionFrom(input, tools, i + 1, bestMatch, bestScore)

DescriptionMatch(input, tools) ==
  DescriptionFrom(input, tools, 1, 0, [num |-> 0, den |-> 1])

\* an intent strategy that accepts a tool fitting any intent with a keyword hit
IntentMatchAnyIntent(input, tools) ==
  LET fits == {i \in 1..Len(tools) :
                 /\ tools[i].active
                 /\ \E d \in 1..Len(intentKeywords) :
                      /\ IntentMatches(input, intentKeywords[d]) > 0
                      /\ \E k \in 1..Len(intentKeywords[d].keywords) :
                           Includes(ToolText(tools[i]), intentKeywords[d].keywords[k])}
  IN IF fits = {} THEN 0 ELSE CHOOSE i \in fits : \A j \in fits : i <= j

\* strategy 3: intentTools[0], the first active tool whose text includes a
\* keyword of the detected intent (0: none)
IntentMatch(input, tools) ==
  LET d == detectIntent(input)
  IN IF d = 0 THEN 0
     ELSE LET kws  == intentKeywords[d].keywords
              fits == {i \in 1..Len(tools) :
                         /\ tools[i].active
                         /\ \E k \in 1..Len(kws) : Includes(ToolText(tools[i]), kws[k])}
          IN IF fits = {} THEN 0 ELSE CHOOSE i \in fits : \A j \in fits : i <= j

NoScore == [num |-> 0, den |-> 1]

\* a matcher that tries the description strategy before the name strategy
findBestMatchDescriptionFirst(input, tools) ==
  IF Len(tools) = 0
  THEN [idx |-> 0, matchType |-> "none", score |-> NoScore, intent |-> 0]
  ELSE LET n == NameMatch(input, tools)
           d == DescriptionMatch(input, tools)
       IN IF d.idx # 0
          THEN [idx |-> d.idx, matchType |-> "description", score |-> d.score,
                intent |-> 0]
          ELSE IF n # 0
          THEN [idx |-> n, matchType |-> "name", score |-> NoScore, intent |-> 0]
          ELSE [idx |-> 0, matchType |-> "none", score |-> NoScore, intent |-> 0]

\* findBestMatch(input, tools): idx is the position of the returned tool in
\* tools (0 for null); matchType, score and intent are what is pushed onto
\* lastInvocations with it
findBestMatch(input, tools) ==
  IF Len(tools) = 0
  THEN [idx |-> 0, matchType |-> "none", score |-> NoScore, intent |-> 0]
  ELSE LET n == NameMatch(input, tools)
           d == DescriptionMatch(input, tools)
           t == IntentMatch(input, tools)
       IN IF n # 0
          THEN [idx |-> n, matchType |-> "name", score |-> NoScore, intent |-> 0]
          ELSE IF d.idx # 0
          THEN [idx |-> d.idx, matchType |-> "description", score |-> d.score,
                intent |-> 0]
          ELSE IF t # 0
          THEN [idx |-> t, matchType |-> "intent", score |-> NoScore,
                intent |-> detectIntent(input)]
          ELSE [idx |-> 0, matchType |-> "none", score |-> NoScore, intent |-> 0]

\* the tools and user inputs explored
ToolPool ==
  {[name |-> <<"W", "e", "a", "t", "h", "e", "r">>,
    description |-> <<"G", "e", "t", " ", "t", "h", "e", " ", "w", "e", "a", "t", "h", "e", "r", " ", "f", "o", "r", "e", "c", "a", "s", "t">>,
    active |-> TRUE, method |-> "GET", endpoint |-> "e", timeout |-> toolTimeout,
    headers |-> <<"{", "}">>, variablesSchema |-> <<"{", "}">>],
   [name |-> <<"W", "e", "a", "t", "h", "e", "r", " ", "A", "P", "I">>,
    description |-> <<>>,
    active |-> TRUE, method |-> "GET", endpoint |-> "e", timeout |-> toolTimeout,
    headers |-> <<"{", "}">>, variablesSchema |-> <<"{", "}">>],
   [name |-> <<"F", "i", "n", "d", "e", "r">>,
    description |-> <<"s", "e", "a", "r", "c", "h", " ", "d", "o", "c", "u", "m", "e", "n", "t", "s", " ", "f", "o", "r", " ", "d", "a", "t", "a">>,
    active |-> TRUE, method |-> "GET", endpoint |-> "e", timeout |-> toolTimeout,
    headers |-> <<"{", "}">>, variablesSchema |-> <<"{", "}">>],
   [name |-> <<"C", "l", "o", "c", "k">>,
    description |-> <<"t", "e", "l", "l", "s", " ", "t", "h", "e", " ", "s", "c", "h", "e", "d", "u", "l", "e">>,
    active |-> TRUE, method |-> "GET", endpoint |-> "e", timeout |-> toolTimeout,
    headers |-> <<"{", "}">>, variablesSchema |-> <<"{", "}">>],
   [name |-> <<"W", "e", "a", "t", "h", "e", "r">>,
    description |-> <<"G", "e", "t", " ", "t", "h", "e", " ", "w", "e", "a", "t", "h", "e", "r", " ", "f", "o", "r", "e", "c", "a", "s", "t">>,
    active |-> FALSE, method |-> "GET", endpoint |-> "e", timeout |-> toolTimeout,
    headers |-> <<"{", "}">>, variablesSchema |-> <<"{", "}">>],
   [name |-> <<"N", "e", "w", "s", " ">>,
    description |-> <<"l", "a", "t", "e", "s", "t", " ", "h", "e", "a", "d", "l", "i", "n", "e", "s", " ", "t", "o", "d", "a", "y">>,
    active |-> TRUE, method |-> "GET", endpoint |-> "e", timeout |-> toolTimeout,
    headers |-> <<"{", "}">>, variablesSchema |-> <<"{", "}">>]}

MatchInputs ==
  {<<"W", "e", "a", "t", "h", "e", "r", " ", "A", "P", "I", " ", "f", "o", "r", "e", "c", "a", "s", "t">>,
   <<"f", "o", "r", "e", "c", "a", "s", "t", " ", "p", "l", "e", "a", "s", "e">>,
   <<"c", "l", "o", "c", "k", " ", "s", "e", "a", "r", "c", "h", " ", "d", "a", "t", "a">>,
   <<"w", "h", "e", "n">>,
   <<"a", "n", "y", " ", "N", "e", "w", "s", " ">>,
   <<"h", "e", "l", "l", "o">>,
   <<"g", "e", "t", " ", "d", "a", "t", "a">>,
   <<"r", "a", "i", "n", " ", "q", "u", "e", "r", "y">>,
   <<"w", "h", "e", "n", " ", "s", "e", "a", "r", "c", "h", " ", "f", "i", "n", "d">>}

----------------------------------------------------------------------------
(* SpecMatch: process() normalizes the input and hands it to findBestMatch, *)
(* for every explored input and every list of at most MaxTools tools.      *)

ToolLists == UNION {[1..n -> ToolPool] : n \in 0..MaxTools}

\* this.lastInvocations.push({tool, matchType, ...}) when a tool is returned
PushInvocation(log, tools, m) ==
  IF m.idx = 0 THEN log
  ELSE Append(log, [tool |-> tools[m.idx], matchType |-> m.matchType,
                    score |-> m.score, intent |-> m.intent])

MatchInit ==
  /\ matchIn \in [userInput : MatchInputs, tools : ToolLists]
  /\ matchOut = <<"none">>
  /\ StoreInit
  /\ MetricsInit
  /\ ChunkIdle
  /\ AgentInit
  /\ StatIdle
  /\ UiIdle

\* process() on input userInput and list tools, up to the match:
\* const matchedTool = this.findBestMatch(normalizedInput, tools)
Match(userInput, tools) ==
  /\ matchIn' = [userInput |-> userInput, tools |-> tools]
  /\ LET m == findBestMatch(NormalizeInput(userInput), tools)
     IN /\ matchOut' = <<"match", m>>
        /\ lastInvocations' = PushInvocation(lastInvocations, tools, m)
  /\ UNCHANGED <<agent, requests, storeVars, chunkVars, metricVars, statVars, uiVars>>

FindBestMatch ==
  /\ matchOut = <<"none">>
  /\ Match(matchIn.userInput, matchIn.tools)

MatchNext == FindBestMatch

SpecMatch == MatchInit /\ [][MatchNext]_vars

----------------------------------------------------------------------------
(* SpecLog: the invocation log under a run of matches on one tool list.    *)

\* the number of entries getRecentInvocations returns: slice(-10)
RecentCount == 10

\* getRecentInvocations(): this.lastInvocations.slice(-10)
getRecentInvocations(log) ==
  SubSeq(log, Max(1, (Len(log) - RecentCount) + 1), Len(log))

LogTools ==
  <<[name |-> <<"W", "e", "a", "t", "h", "e", "r">>,
     description |-> <<"G", "e", "t", " ", "t", "h", "e", " ", "w", "e", "a", "t", "h", "e", "r", " ", "f", "o", "r", "e", "c", "a", "s", "t">>,
     active |-> TRUE, method |-> "GET", endpoint |-> "e", timeout |-> toolTimeout,
    headers |-> <<"{", "}">>, variablesSchema |-> <<"{", "}">>]>>

LogInputs ==
  {<<"W", "e", "a", "t", "h", "e", "r">>,
   <<"f", "o", "r", "e", "c", "a", "s", "t">>,
   <<"h", "e", "l", "l", "o">>}

\* clearHistory(): this.lastInvocations = []
ClearHistory ==
  /\ lastInvocations' = <<>>
  /\ UNCHANGED <<matchVars, agent, requests, storeVars, chunkVars, metricVars, statVars, uiVars>>

LogInit ==
  /\ StoreInit
  /\ MetricsInit
  /\ ChunkIdle
  /\ MatchIdle
  /\ AgentInit
  /\ StatIdle
  /\ UiIdle

LogNext ==
  \/ \E u \in LogInputs : Len(lastInvocations) < MaxMatches /\ Match(u, LogTools)
  \/ ClearHistory

SpecLog == LogInit /\ [][LogNext]_vars

----------------------------------------------------------------------------
(* AgentRuntime.process and invokeTool.  process() runs without a pause up *)
(* to the fetch of invokeTool; the request is then pending until the HTTP  *)
(* client resolves it with a response or rejects it.                       *)

\* the topK that retrieveContext hands to searchSimilar
ContextTopK == 3


\* the metrics log as one value
MetricLog == [metrics |-> metrics, recorded |-> recorded, nextSeq |-> nextSeq]

\* benchmarkManager.logMetric(category, name, value) applied to the log m
Logged(m, category, name, value) ==
  LET entry == MetricEntry(m.nextSeq + 1, category, name, value)
  IN [metrics  |-> AutoPrune(Append(m.metrics, entry)),
      recorded |-> Append(m.recorded, entry),
      nextSeq  |-> m.nextSeq + 1]

SetMetricLog(m) ==
  /\ metrics' = m.metrics
  /\ recorded' = m.recorded
  /\ nextSeq' = m.nextSeq

\* retrieveContext: the two RAG metrics are logged when snippets were found;
\* the retrieval is synchronous, so its elapsed time is 0 clock ticks
RetrievalLogged(m, snippets) ==
  IF Len(snippets) > 0
  THEN Logged(Logged(m, RAG, retrieval_time, 0), RAG, context_snippets, Len(snippets))
  ELSE m

\* invokeTool after the response: execution_time and success_rate
ResponseLogged(m, elapsed, status) ==
  Logged(Logged(m, TOOLS, execution_time, elapsed),
         TOOLS, success_rate, IF status >= 200 /\ status < 300 THEN 1 ELSE 0)

\* the catch block of invokeTool: execution_time and success_rate 0
FailureLogged(m, elapsed) ==
  Logged(Logged(m, TOOLS, execution_time, elapsed), TOOLS, success_rate, 0)

\* tool.method || 'GET'
MethodOf(tool) == IF tool.method = "" THEN "GET" ELSE tool.method

\* the character at position i of s, "" past its end
At(s, i) == IF i >= 1 /\ i <= Len(s) THEN s[i] ELSE ""

RECURSIVE SkipWS(_, _)
\* the first position from i on that holds no JSON whitespace
SkipWS(s, i) == IF i <= Len(s) /\ IsSpace(s[i]) THEN SkipWS(s, i + 1) ELSE i

ParseFail == [ok |-> FALSE, value |-> <<>>, next |-> 0]

\* a JSON string starting at position i: a quote, characters other than quote
\* and backslash, a quote (the explored texts hold no escape sequences)
ParseString(s, i) ==
  IF At(s, i) # "\""
  THEN ParseFail
  ELSE LET closes == {j \in (i + 1)..Len(s) : s[j] = "\""}
       IN IF closes = {}
          THEN ParseFail
          ELSE LET j == CHOOSE j \in closes : \A k \in closes : j <= k
               IN IF \E k \in (i + 1)..(j - 1) : s[k] \in {"\\", "\n", "\t"}
                  THEN ParseFail
                  ELSE [ok |-> TRUE, value |-> SubSeq(s, i + 1, j - 1), next |-> j + 1]

\* obj[key] = value on an object kept as its key/value pairs in insertion order
ObjSet(obj, key, value) ==
  IF \E i \in 1..Len(obj) : obj[i][1] = key
  THEN [i \in 1..Len(obj) |-> IF obj[i][1] = key THEN <<key, value>> ELSE obj[i]]
  ELSE Append(obj, <<key, value>>)

RECURSIVE ParseMembers(_, _, _)
\* the members of an object from position i on, up to the closing brace
ParseMembers(s, i, acc) ==
  LET k == ParseString(s, i)
  IN IF ~k.ok THEN ParseFail
     ELSE LET c == SkipWS(s, k.next)
          IN IF At(s, c) # ":" THEN ParseFail
             ELSE LET v == ParseString(s, SkipWS(s, c + 1))
                  IN IF ~v.ok THEN ParseFail
                     ELSE LET e   == SkipWS(s, v.next)
                              obj == ObjSet(acc, k.value, v.value)
                          IN IF At(s, e) = ","
                             THEN ParseMembers(s, SkipWS(s, e + 1), obj)
                             ELSE IF At(s, e) = "}"
                             THEN [ok |-> TRUE, value |-> obj, next |-> e + 1]
                             ELSE ParseFail

\* JSON.parse(s) for the texts explored: objects whose values are strings; ok
\* is FALSE where JSON.parse throws a SyntaxError
JSONParse(s) ==
  LET i == SkipWS(s, 1)
  IN IF At(s, i) # "{" THEN ParseFail
     ELSE LET j == SkipWS(s, i + 1)
              r == IF At(s, j) = "}"
                   THEN [ok |-> TRUE, value |-> <<>>, next |-> j + 1]
                   ELSE ParseMembers(s, j, <<>>)
          IN IF r.ok /\ SkipWS(s, r.next) > Len(s) THEN r ELSE ParseFail

\* parseJSON(jsonString): try { return JSON.parse(jsonString) } catch { return {} }
parseJSON(jsonString) ==
  IF JSONParse(jsonString).ok THEN JSONParse(jsonString).value ELSE <<>>

RECURSIVE StringifyFrom(_, _)
\* the members of JSON.stringify(obj) from member i on
StringifyFrom(obj, i) ==
  IF i > Len(obj) THEN <<>>
  ELSE (IF i > 1 THEN <<",">> ELSE <<>>)
       \o <<"\"">> \o obj[i][1] \o <<"\"", ":", "\"">> \o obj[i][2] \o <<"\"">>
       \o StringifyFrom(obj, i + 1)

\* JSON.stringify(obj) of an object whose values are strings
JSONStringify(obj) == <<"{">> \o StringifyFrom(obj, 1) \o <<"}">>

RECURSIVE SpreadFrom(_, _, _)
\* {...target, ...source} from member i of source on
SpreadFrom(target, source, i) ==
  IF i > Len(source) THEN target
  ELSE SpreadFrom(ObjSet(target, source[i][1], source[i][2]), source, i + 1)

ContentType == <<"C", "o", "n", "t", "e", "n", "t", "-", "T", "y", "p", "e">>
ApplicationJson == <<"a", "p", "p", "l", "i", "c", "a", "t", "i", "o", "n", "/", "j", "s", "o", "n">>

\* x || '{}' for a string x
OrEmptyObject(x) == IF x = <<>> THEN <<"{", "}">> ELSE x

\* a request that carries the stringified variables whatever the method
RequestBodyAlways(tool) ==
  LET headers   == parseJSON(OrEmptyObject(tool.headers))
      variables == parseJSON(OrEmptyObject(tool.variablesSchema))
  IN [endpoint |-> tool.endpoint, method |-> MethodOf(tool),
      headers |-> SpreadFrom(<<<<ContentType, ApplicationJson>>>>, headers, 1),
      hasBody |-> TRUE,
      body |-> JSONStringify(variables)]

\* fetch(tool.endpoint, fetchOptions): the default Content-Type header with the
\* tool's headers spread over it, a body for methods other than GET and
\* DELETE; no signal and no timer are attached to the request
Request(tool) ==
  LET headers   == parseJSON(OrEmptyObject(tool.headers))
      variables == parseJSON(OrEmptyObject(tool.variablesSchema))
      hasBody   == MethodOf(tool) \notin {"GET", "DELETE"}
  IN [endpoint |-> tool.endpoint, method |-> MethodOf(tool),
      headers |-> SpreadFrom(<<<<ContentType, ApplicationJson>>>>, headers, 1),
      hasBody |-> hasBody,
      body |-> IF hasBody THEN JSONStringify(variables) ELSE <<>>]

NoText == [block |-> "null", tool |-> <<>>, status |-> 0, format |-> "none", data |-> "none"]

\* formatToolResponse(tool, data, status)
formatToolResponse(tool, data, status) ==
  IF status >= 200 /\ status < 300
  THEN IF data.type = "object"
       THEN [block |-> "Tool Result", tool |-> tool.name, status |-> 0,
             format |-> "json", data |-> data.value]
       ELSE [block |-> "Tool Result", tool |-> tool.name, status |-> 0,
             format |-> "raw", data |-> data.value]
  ELSE [block |-> "Tool Error", tool |-> tool.name, status |-> status,
        format |-> "json", data |-> data.value]

\* `Tool execution failed: ${error.message}`
FailedText(message) ==
  [block |-> "Tool execution failed", tool |-> <<>>, status |-> 0,
   format |-> "raw", data |-> message]

\* the object returned when no tool matched; keys are its property names
NoToolResult(snippets) ==
  [returned |-> TRUE, keys |-> {"text", "fromTool", "fromRAG", "context"},
   text |-> NoText, fromTool |-> FALSE, matchedTool |-> 0, error |-> FALSE,
   latency |-> 0, fromRAG |-> snippets > 0, context |-> snippets]

\* the object returned after invokeTool resolved
ToolResult(ag, t) ==
  [returned |-> TRUE,
   keys |-> {"text", "fromTool", "matchedTool", "latency", "fromRAG", "context"},
   text |-> t, fromTool |-> TRUE, matchedTool |-> ag.matched, error |-> FALSE,
   latency |-> ag.elapsed, fromRAG |-> ag.snippets > 0, context |-> ag.snippets]

\* the object returned by the catch block of process()
ErrorResult(ag, message) ==
  [returned |-> TRUE,
   keys |-> {"text", "fromTool", "matchedTool", "error", "latency", "fromRAG", "context"},
   text |-> FailedText(message), fromTool |-> TRUE, matchedTool |-> ag.matched,
   error |-> TRUE, latency |-> ag.elapsed, fromRAG |-> ag.snippets > 0,
   context |-> ag.snippets]

NoResponse == [status |-> 0, isJson |-> FALSE, readable |-> FALSE, type |-> "none"]

\* process(userInput, tools) up to its first await
Process(userInput, tools) ==
  /\ agent.pc \in {"idle", "done", "threw"}
  /\ LET snippets == searchSimilar(chunks, userInput, ContextTopK)
         m        == findBestMatch(NormalizeInput(userInput), tools)
         started  == [pc |-> "awaiting", calls |-> agent.calls + 1,
                      userInput |-> userInput, tools |-> tools, matched |-> m.idx,
                      snippets |-> Len(snippets), elapsed |-> 0,
                      fetch |-> "pending", response |-> NoResponse,
                      result |-> NoResult]
     IN /\ SetMetricLog(RetrievalLogged(MetricLog, snippets))
        /\ lastInvocations' = PushInvocation(lastInvocations, tools, m)
        /\ IF m.idx = 0
           THEN /\ agent' = [started EXCEPT !.pc = "done", !.fetch = "none",
                                            !.result = NoToolResult(Len(snippets))]
                /\ requests' = requests
           ELSE /\ agent' = started
                /\ requests' = Append(requests, Request(tools[m.idx]))

\* a process() call made on its own, outside the chat panel
ProcessStart(userInput, tools) ==
  /\ agent.calls < MaxCalls
  /\ Process(userInput, tools)
  /\ UNCHANGED <<storeVars, chunkVars, matchVars, statVars, uiVars>>

\* time passes while the request is pending
Tick ==
  /\ agent.pc = "awaiting"
  /\ agent.elapsed < MaxElapsed
  /\ agent' = [agent EXCEPT !.elapsed = @ + 1]
  /\ UNCHANGED <<lastInvocations, requests, storeVars, chunkVars, metricVars, matchVars, statVars, uiVars>>

\* a process() that lets the error of invokeTool propagate to its caller
CaughtRethrown(ag, message) == [ag EXCEPT !.pc = "threw", !.result = NoResult]

\* the catch block of process() once invokeTool threw
Caught(ag, message) == [ag EXCEPT !.pc = "done", !.result = ErrorResult(ag, message)]

\* fetch resolves with a response of the given status; readable tells whether
\* response.json() / response.text() succeeds, type is typeof the data read
FetchResolves(status, isJson, readable, type) ==
  /\ agent.pc = "awaiting"
  /\ LET tool == agent.tools[agent.matched]
         got  == [agent EXCEPT !.fetch = "response",
                               !.response = [status |-> status, isJson |-> isJson,
                                             readable |-> readable, type |-> type]]
         m1   == ResponseLogged(MetricLog, agent.elapsed, status)
     IN IF readable
        THEN /\ SetMetricLog(m1)
             /\ agent' = [got EXCEPT !.pc = "done",
                     !.result = ToolResult(agent,
                        formatToolResponse(tool, [type |-> type, value |-> "body"], status))]
        ELSE /\ SetMetricLog(FailureLogged(m1, agent.elapsed))
             /\ agent' = Caught(got, "body cannot be read")
  /\ UNCHANGED <<lastInvocations, requests, storeVars, chunkVars, matchVars, statVars, uiVars>>

\* fetch rejects: no response was received
FetchRejects ==
  /\ agent.pc = "awaiting"
  /\ SetMetricLog(FailureLogged(MetricLog, agent.elapsed))
  /\ agent' = Caught([agent EXCEPT !.fetch = "rejected"], "Failed to fetch")
  /\ UNCHANGED <<lastInvocations, requests, storeVars, chunkVars, matchVars, statVars, uiVars>>

\* the tool lists, inputs and responses explored
WeatherTool(active) ==
  [name |-> <<"W", "e", "a", "t", "h", "e", "r">>,
   description |-> <<"G", "e", "t", " ", "t", "h", "e", " ", "w", "e", "a", "t", "h", "e", "r", " ", "f", "o", "r", "e", "c", "a", "s", "t">>,
   active |-> active, method |-> "GET", endpoint |-> "e", timeout |-> toolTimeout,
    headers |-> <<"{", "}">>, variablesSchema |-> <<"{", "}">>]

ClockTool ==
  [name |-> <<"C", "l", "o", "c", "k">>,
   description |-> <<"t", "e", "l", "l", "s", " ", "t", "h", "e", " ", "s", "c", "h", "e", "d", "u", "l", "e">>,
   active |-> TRUE, method |-> "POST", endpoint |-> "c", timeout |-> toolTimeout,
    headers |-> <<"{", "}">>, variablesSchema |-> <<"{", "}">>]

AgentToolLists ==
  {<<>>, <<WeatherTool(FALSE)>>, <<WeatherTool(FALSE), WeatherTool(TRUE)>>,
   <<ClockTool, WeatherTool(FALSE)>>}

AgentInputs ==
  {<<"W", "e", "a", "t", "h", "e", "r">>,
   <<"f", "o", "r", "e", "c", "a", "s", "t", " ", "p", "l", "e", "a", "s", "e">>,
   <<"w", "h", "e", "n">>,
   <<"h", "e", "l", "l", "o">>}

Statuses == {200, 299, 300, 404}

\* what the body of a response can be: JSON that parses to an object or to a
\* string, or plain text
BodyKinds ==
  {[isJson |-> TRUE, type |-> "object"], [isJson |-> TRUE, type |-> "string"],
   [isJson |-> FALSE, type |-> "string"]}

\* the store is empty or holds one document added through addDocument
AgentStoreInit ==
  \/ StoreInit
  \/ LET name == <<"n">>
         t    == <<"w", "e", "a", "t", "h", "e", "r">>
         cs   == splitIntoChunks(t)
     IN /\ documents = <<DocInfo(1, name, t, cs)>>
        /\ chunks = ProcessedChunks(1, name, cs)
        /\ nextDocId = 2
        /\ lastOp = Call("add", 1, name, t, <<>>, 0, "returned", <<>>, NoOp)
        /\ pre = EmptyStore

AgentSpecInit ==
  /\ AgentStoreInit
  /\ MetricsInit
  /\ ChunkIdle
  /\ MatchIdle
  /\ AgentInit
  /\ StatIdle
  /\ UiIdle

AgentNext ==
  \/ \E u \in AgentInputs, ts \in AgentToolLists : ProcessStart(u, ts)
  \/ Tick
  \/ \E st \in Statuses, b \in BodyKinds, r \in BOOLEAN :
        FetchResolves(st, b.isJson, r, b.type)
  \/ FetchRejects

SpecAgent == AgentSpecInit /\ [][AgentNext]_vars

----------------------------------------------------------------------------
(* SpecInvoke: process() on one matched tool, over the methods and the      *)
(* headers and variablesSchema texts a tool can be configured with.        *)

Methods == {"", "GET", "POST", "DELETE"}

\* texts that JSON.parse rejects
MalformedTexts ==
  {<<"{", "\"", "a", "\"", ":", "\"", "b", "\"">>,
   <<"{", "a", "}">>,
   <<"n", "o", "t", " ", "j", "s", "o", "n">>,
   <<"{", "\"", "a", "\"", ":", "\"", "b", "\"", ",", "}">>}

\* texts that JSON.parse accepts (the empty text stands for a missing field)
HeaderTexts ==
  {<<>>,
   <<"{", "}">>,
   <<" ", "{", " ", "\"", "a", "\"", " ", ":", " ", "\"", "b", "\"", " ", "}", " ">>,
   <<"{", "\"", "C", "o", "n", "t", "e", "n", "t", "-", "T", "y", "p", "e", "\"", ":", "\"", "t", "e", "x", "t", "/", "p", "l", "a", "i", "n", "\"", ",", "\"", "a", "\"", ":", "\"", "b", "\"", "}">>}

SchemaTexts ==
  {<<>>,
   <<"{", "\"", "q", "\"", ":", "\"", "x", "\"", "}">>}

ConfiguredTool(method, headers, variablesSchema) ==
  [ClockTool EXCEPT !.method = method, !.headers = headers,
                    !.variablesSchema = variablesSchema]

InvokeInput == <<"w", "h", "e", "n">>

InvokeInit ==
  /\ StoreInit
  /\ MetricsInit
  /\ ChunkIdle
  /\ MatchIdle
  /\ AgentInit
  /\ StatIdle
  /\ UiIdle

\* the first call picks the tool's configuration, a later call is made with
\* the same tool list
InvokeNext ==
  \/ \E m \in Methods, h \in HeaderTexts \cup MalformedTexts,
        v \in SchemaTexts \cup MalformedTexts :
        /\ agent.calls = 0 \/ agent.tools = <<ConfiguredTool(m, h, v)>>
        /\ ProcessStart(InvokeInput, <<ConfiguredTool(m, h, v)>>)
  \/ FetchResolves(200, TRUE, TRUE, "object")
  \/ FetchRejects

SpecInvoke == InvokeInit /\ [][InvokeNext]_vars

----------------------------------------------------------------------------
(* Claims about the memory store, under Spec.                              *)

\* number of stored chunks that belong to document docId
ChunksOf(cs, docId) == Cardinality({i \in 1..Len(cs) : cs[i].docId = docId})

\* docId is the id of a document in docs
Known(docs, docId) == \E i \in 1..Len(docs) : docs[i].id = docId

\* C2: addDocument followed by deleteDocument of the returned id leaves the
\* document count and the chunk count of getStats equal to their values before
\* the add, and the chunk array is the one stored before the add, in order.
C2_AddThenDeleteRestores ==
  [][(lastOp.op = "add" /\ lastOp'.op = "delete" /\ lastOp'.undoesAdd)
       => /\ getStats(documents', chunks').documents
               = getStats(pre.documents, pre.chunks).documents
          /\ getStats(documents', chunks').chunks
               = getStats(pre.documents, pre.chunks).chunks
          /\ chunks' = pre.chunks]_vars

\* C2 witness: a document was added to a store that already held chunks and
\* was deleted by the very next call.
C2_Witness ==
  /\ lastOp.op = "delete"
  /\ lastOp.undoesAdd
  /\ lastOp.outcome = "true"
  /\ Len(chunks) >= 2
  /\ Len(pre.chunks) > Len(chunks)

\* C3: every stored chunk belongs to a stored document, every stored document
\* has exactly chunkCount chunks in the store, a successful deleteDocument(id)
\* leaves no chunk of id, and clearMemory leaves no document and no chunk.
C3_ChunksBoundToDocuments ==
  /\ \A i \in 1..Len(chunks) : Known(documents, chunks[i].docId)
  /\ \A i \in 1..Len(documents) :
        ChunksOf(chunks, documents[i].id) = documents[i].chunkCount
  /\ (lastOp.op = "delete" /\ lastOp.outcome = "true")
        => ChunksOf(chunks, lastOp.id) = 0 /\ ~Known(documents, lastOp.id)
  /\ lastOp.op = "clear" => documents = <<>> /\ chunks = <<>>

\* C3 witness: a document with chunks was deleted from a store that keeps
\* another document and its chunks.
C3_Witness ==
  /\ lastOp.op = "delete"
  /\ lastOp.outcome = "true"
  /\ ChunksOf(pre.chunks, lastOp.id) >= 2
  /\ Len(documents) >= 1
  /\ Len(chunks) >= 2

C8_EmptyInputRejected ==
  (lastOp.op = "add" /\ (lastOp.name = <<>> \/ lastOp.text = <<>>))
    => /\ lastOp.outcome = "InvalidInputError"
       /\ Len(documents) = Len(pre.documents)
       /\ Len(chunks) = Len(pre.chunks)
       /\ nextDocId = pre.nextDocId

\* the similarity of stored chunk c to the query of the last search
QueryScore(c) ==
  calculateSimilarity(calculateWordFrequency(tokenize(lastOp.query)), c.wordFreq)

\* chunk c is among the results of the last search
Returned(c) == \E j \in 1..Len(lastOp.results) : lastOp.results[j].id = c.id

\* C9: searchSimilar returns at most topK results, each with similarity
\* strictly greater than 0.1, in non-increasing similarity order, and no chunk
\* left out has a similarity greater than that of a returned result unless
\* topK results were returned.
C9_TopKAboveThresholdSorted ==
  lastOp.op = "search" =>
    LET rs == lastOp.results
    IN /\ Len(rs) <= lastOp.topK
       /\ \A j \in 1..Len(rs) : 100 * rs[j].similarity.num > rs[j].similarity.den
       /\ \A j \in 1..(Len(rs) - 1) : ~SimGT(rs[j + 1].similarity, rs[j].similarity)
       /\ \A i \in 1..Len(chunks) :
            ~Returned(chunks[i]) =>
               \/ Len(rs) = lastOp.topK
               \/ \A j \in 1..Len(rs) : ~SimGT(QueryScore(chunks[i]), rs[j].similarity)

\* C9 witness: a search that returns topK >= 2 results and leaves out both a
\* chunk above the threshold and a chunk below it.
C9_Witness ==
  /\ lastOp.op = "search"
  /\ Len(lastOp.results) >= 2
  /\ Len(lastOp.results) = lastOp.topK
  /\ \E i \in 1..Len(chunks) :
        ~Returned(chunks[i]) /\ AboveThreshold(QueryScore(chunks[i]))
  /\ \E i \in 1..Len(chunks) :
        ~Returned(chunks[i]) /\ ~AboveThreshold(QueryScore(chunks[i]))

\* position of the chunk with the given id in the chunk array
PosOf(cs, id) == CHOOSE i \in 1..Len(cs) : cs[i].id = id

\* C10: results of equal similarity are ranked in the order in which their
\* chunks are stored: insertion order of documents, then chunk ordinal.
C10_TiesInStoredOrder ==
  lastOp.op = "search" =>
    LET rs == lastOp.results
    IN \A i \in 1..Len(rs) : \A j \in (i + 1)..Len(rs) :
          SimEQ(rs[i].similarity, rs[j].similarity)
            => /\ PosOf(chunks, rs[i].id) < PosOf(chunks, rs[j].id)
               /\ \/ rs[i].docId < rs[j].docId
                  \/ (rs[i].docId = rs[j].docId /\ rs[i].index < rs[j].index)

\* C10 witness: after the first document was deleted, a search returns two
\* results of equal similarity from different documents.
C10_Witness ==
  /\ lastOp.op = "search"
  /\ Len(documents) >= 2
  /\ documents[1].id > 1
  /\ \E i \in 1..Len(lastOp.results) : \E j \in (i + 1)..Len(lastOp.results) :
        /\ SimEQ(lastOp.results[i].similarity, lastOp.results[j].similarity)
        /\ lastOp.results[i].docId # lastOp.results[j].docId

\* C11: searchSimilar on a store that holds no chunks returns an empty
\* sequence without raising, on a fresh store and on one whose documents were
\* all deleted or cleared.
C11_EmptyStoreSearchIsEmpty ==
  /\ (lastOp.op = "search" /\ chunks = <<>>)
        => lastOp.results = <<>> /\ lastOp.outcome = "returned"
  /\ (lastOp.op = "search" /\ documents = <<>>)
        => lastOp.results = <<>> /\ lastOp.outcome = "returned"

\* C11 witness: documents were added and are all gone again, and a non-empty
\* query asking for at least one result finds nothing.
C11_Witness ==
  /\ lastOp.op = "search"
  /\ nextDocId > 2
  /\ documents = <<>>
  /\ chunks = <<>>
  /\ Len(lastOp.query) > 0
  /\ lastOp.topK >= 1
  /\ lastOp.results = <<>>

\* C12: reembedAll leaves every chunk's text, token list, token-frequency map
\* and token count, and the documents and the order of chunks, as they were;
\* a second reembedAll would change nothing either.
C12_ReembedIsNoOp ==
  lastOp.op = "reembed" =>
    /\ chunks = pre.chunks
    /\ documents = pre.documents
    /\ nextDocId = pre.nextDocId
    /\ \A i \in 1..Len(chunks) : Reembedded(chunks[i]) = chunks[i]

\* C12 witness: reembedAll on a store built by adds and a delete, holding a
\* chunk whose text has an upper-case letter and punctuation.
C12_Witness ==
  /\ lastOp.op = "reembed"
  /\ Len(documents) >= 1
  /\ documents[1].id > 1
  /\ \E i \in 1..Len(chunks) :
        /\ chunks[i].words # <<>>
        /\ chunks[i].words # SplitWS(chunks[i].text)

----------------------------------------------------------------------------
(* Claims about tool matching, under SpecMatch.                            *)

Matched == matchOut[1] = "match"
MatchResult == matchOut[2]
MatchTools == matchIn.tools

\* the active tools whose lower-cased name occurs in the input
NameHits(input) ==
  {i \in 1..Len(MatchTools) :
     MatchTools[i].active /\ Includes(input, LowerStr(MatchTools[i].name))}

\* C13 as stated: if the user input contains, case-insensitively, the name of
\* an active tool T of the list, the Matcher selects T.
C13_NamedToolIsSelected ==
  Matched =>
    \A i \in NameHits(LowerStr(matchIn.userInput)) :
       MatchResult.idx # 0 /\ MatchTools[MatchResult.idx] = MatchTools[i]

\* C13 amended: if the lower-cased, trimmed input contains the lower-cased
\* name of an active tool, the Matcher selects, by name match, the first such
\* tool in supplied order, and never a tool matched by description or intent.
C13_FirstNamedToolIsSelected ==
  Matched =>
    LET hits == NameHits(NormalizeInput(matchIn.userInput))
    IN hits # {} =>
         /\ MatchResult.matchType = "name"
         /\ MatchResult.idx \in hits
         /\ \A j \in hits : MatchResult.idx <= j

\* a name match won although another tool, with a better description score,
\* stood in the list
C13_Witness ==
  /\ Matched
  /\ NameHits(NormalizeInput(matchIn.userInput)) # {}
  /\ MatchResult.matchType = "name"
  /\ \E j \in 1..Len(MatchTools) :
        /\ j # MatchResult.idx
        /\ MatchTools[j].active
        /\ j \notin NameHits(NormalizeInput(matchIn.userInput))
        /\ keywordScore(NormalizeInput(matchIn.userInput),
                        extractKeywords(DescriptionOf(MatchTools[j]))).num >= 2

\* the description score of tool i for the normalized input
ScoreOf(i) ==
  keywordScore(NormalizeInput(matchIn.userInput),
               extractKeywords(DescriptionOf(MatchTools[i])))

\* the active tools scoring strictly above 0.3
Eligible == {i \in 1..Len(MatchTools) :
               MatchTools[i].active /\ 10 * ScoreOf(i).num > 3 * ScoreOf(i).den}

\* C15: when no active tool matches by name, description matching selects the
\* active tool with the highest score among those strictly above 0.3, the
\* first in supplied order among equals, and nothing when no score is above 0.3.
C15_DescriptionMatchIsBestScore ==
  (Matched /\ NameHits(NormalizeInput(matchIn.userInput)) = {}) =>
    IF Eligible = {}
    THEN MatchResult.matchType # "description"
    ELSE /\ MatchResult.matchType = "description"
         /\ MatchResult.idx \in Eligible
         /\ MatchResult.score = ScoreOf(MatchResult.idx)
         /\ \A j \in Eligible :
              /\ ScoreOf(j).num * ScoreOf(MatchResult.idx).den
                    <= ScoreOf(MatchResult.idx).num * ScoreOf(j).den
              /\ (ScoreOf(j).num * ScoreOf(MatchResult.idx).den
                    = ScoreOf(MatchResult.idx).num * ScoreOf(j).den)
                   => MatchResult.idx <= j

\* two tools share the highest score and the first of them is selected
C15_Witness ==
  /\ Matched
  /\ NameHits(NormalizeInput(matchIn.userInput)) = {}
  /\ MatchResult.matchType = "description"
  /\ MatchResult.idx = 1
  /\ 2 \in Eligible
  /\ MatchTools[2] # MatchTools[1]
  /\ ScoreOf(2).num * ScoreOf(1).den = ScoreOf(1).num * ScoreOf(2).den

\* the intents with the most keywords occurring in the input
TopIntents(input) ==
  {d \in 1..Len(intentKeywords) :
     /\ IntentMatches(input, intentKeywords[d]) > 0
     /\ \A e \in 1..Len(intentKeywords) :
          IntentMatches(input, intentKeywords[e]) <= IntentMatches(input, intentKeywords[d])}

\* the active tools whose lower-cased name and description hold a keyword of
\* intent d
FitsIntent(d) ==
  {i \in 1..Len(MatchTools) :
     /\ MatchTools[i].active
     /\ \E k \in 1..Len(intentKeywords[d].keywords) :
          Includes(LowerStr(MatchTools[i].name \o <<" ">> \o MatchTools[i].description),
                   intentKeywords[d].keywords[k])}

----------------------------------------------------------------------------
(* Claims about the invocation log, under SpecLog.                         *)

\* C17: after any sequence of matches the invocation log held by the Matcher
\* contains at most 10 entries, the most recent ones.
C17_LogHoldsAtMostTen ==
  /\ Len(lastInvocations) <= RecentCount
  /\ lastInvocations = getRecentInvocations(lastInvocations)

----------------------------------------------------------------------------
(* Claims about process() and the tool invocation, under SpecAgent.        *)

AllInactive(tools) == \A i \in 1..Len(tools) : ~tools[i].active

\* C14: the tool selected by process() is none or an active member of the
\* supplied list, and it is the tool entered in the invocation log; with no
\* tool or only inactive tools process() selects none, returns fromTool:false,
\* issues no HTTP request and appends nothing to the invocation log.
C14_OnlyActiveToolsSelected ==
  [][ (agent'.calls = agent.calls + 1) =>
        /\ agent'.matched # 0 =>
              /\ agent'.matched \in 1..Len(agent'.tools)
              /\ agent'.tools[agent'.matched].active
              /\ Len(lastInvocations') = Len(lastInvocations) + 1
              /\ lastInvocations'[Len(lastInvocations')].tool = agent'.tools[agent'.matched]
              /\ lastInvocations'[Len(lastInvocations')].matchType
                    \in {"name", "description", "intent"}
        /\ AllInactive(agent'.tools) =>
              /\ agent'.matched = 0
              /\ agent'.pc = "done"
              /\ agent'.result.returned
              /\ agent'.result.fromTool = FALSE
              /\ requests' = requests
              /\ lastInvocations' = lastInvocations ]_vars

\* the input names a tool of the list, every tool of the list is inactive, and
\* process() returned without a tool, a request or a log entry
C14_Witness ==
  /\ agent.calls >= 1
  /\ agent.tools # <<>>
  /\ AllInactive(agent.tools)
  /\ Includes(NormalizeInput(agent.userInput), LowerStr(agent.tools[1].name))
  /\ agent.pc = "done"
  /\ agent.result.fromTool = FALSE
  /\ requests = <<>>
  /\ lastInvocations = <<>>

\* C18: a tool invocation that gets no response is aborted once the tool's
\* configured timeout has elapsed, so a pending request never outlasts it.
C18_PendingRequestAbortedAtTimeout ==
  agent.pc = "awaiting" => agent.elapsed <= agent.tools[agent.matched].timeout

C20_NonSuccessStatusIsNormalResult ==
  /\ (agent.fetch = "response"
        /\ ~(agent.response.status >= 200 /\ agent.response.status < 300)) =>
       /\ agent.pc = "done"
       /\ agent.result.returned
       /\ agent.result.fromTool
       /\ "error" \notin agent.result.keys
       /\ agent.result.text.block = "Tool Error"
       /\ agent.result.text.status = agent.response.status
       /\ agent.result.text.data = "body"
  /\ (agent.pc = "done" /\ agent.result.text.block = "Tool Result") =>
       (agent.response.status >= 200 /\ agent.response.status < 300)

\* the number of recorded entries of the given category and name
CountRecorded(category, name) ==
  Cardinality({i \in 1..Len(recorded) :
                 recorded[i].category = category /\ recorded[i].name = name})

\* the tool invocations that have ended, by a response or by a rejection
EndedInvocations == IF agent.pc = "awaiting" THEN Len(requests) - 1 ELSE Len(requests)

\* C21: every call to process() has reported a RAG retrieval_time and a RAG
\* context_snippets entry, whatever the retrieval found, and every tool
\* invocation that ended has reported TOOLS execution_time and success_rate.
C21_EveryCallReportsMetrics ==
  /\ CountRecorded(RAG, retrieval_time) >= agent.calls
  /\ CountRecorded(RAG, context_snippets) >= agent.calls
  /\ CountRecorded(TOOLS, execution_time) >= EndedInvocations
  /\ CountRecorded(TOOLS, success_rate) >= EndedInvocations

----------------------------------------------------------------------------
(* Claims about the request of a tool invocation, under SpecInvoke.        *)

LastRequest == requests[Len(requests)]
MatchedTool == agent.tools[agent.matched]

\* C22: malformed JSON in the headers or variablesSchema of a matched tool
\* never raises and never prevents the request: malformed headers leave only
\* the default Content-Type header, malformed variables give the body "{}"
\* for methods other than GET and DELETE, and GET and DELETE carry no body.
C22_MalformedJsonIsTolerated ==
  agent.matched # 0 =>
    /\ agent.pc # "threw"
    /\ Len(requests) >= 1
    /\ LastRequest.endpoint = MatchedTool.endpoint
    /\ MatchedTool.headers \in MalformedTexts =>
          LastRequest.headers = <<<<ContentType, ApplicationJson>>>>
    /\ (MatchedTool.variablesSchema \in MalformedTexts
          /\ MatchedTool.method \notin {"", "GET", "DELETE"}) =>
          LastRequest.hasBody /\ LastRequest.body = <<"{", "}">>
    /\ MatchedTool.method \in {"", "GET", "DELETE"} =>
          ~LastRequest.hasBody /\ LastRequest.body = <<>>
    /\ (agent.pc = "done" /\ agent.fetch = "response") =>
          "error" \notin agent.result.keys

\* a POST tool with malformed headers and malformed variables was invoked and
\* its response was returned
C22_Witness ==
  /\ agent.matched # 0
  /\ MatchedTool.method = "POST"
  /\ MatchedTool.headers \in MalformedTexts
  /\ MatchedTool.variablesSchema \in MalformedTexts
  /\ LastRequest.body = <<"{", "}">>
  /\ agent.pc = "done"
  /\ agent.fetch = "response"
  /\ agent.result.text.block = "Tool Result"

----------------------------------------------------------------------------
(* Claims about getStatistics, under SpecStats and SpecStatLog.            *)

\* the values of the entries of statIn that are TOOLS/success_rate samples
\* inside the time window, in insertion order
Samples ==
  LET hit == SelectSeq(statIn.entries,
                LAMBDA m : /\ m.category = TOOLS
                           /\ m.name = success_rate
                           /\ (statIn.timeWindow = 0
                                \/ m.timestamp > statIn.now - statIn.timeWindow))
  IN [i \in 1..Len(hit) |-> hit[i].value]

FirstHalfSum == SumSeq(SubSeq(Samples, 1, Len(Samples) \div 2))
SecondHalfSum == SumSeq(SubSeq(Samples, (Len(Samples) \div 2) + 1, Len(Samples)))

\* C23: trend is 0 for fewer than 10 matching samples; from 10 samples on it
\* is the percentage change from the mean of the first floor(n/2) samples to
\* the mean of the remaining ones.
C23_TrendIsPercentageChange ==
  stats.called =>
    LET n == Len(Samples)
        h == n \div 2
        t == stats.result.trend
    IN IF n < TrendMinSamples
       THEN t.kind = "finite" /\ t.num = 0
       ELSE /\ t.kind = "finite"
            /\ t.num * (FirstHalfSum * (n - h))
                 = (((SecondHalfSum * h) - (FirstHalfSum * (n - h))) * 100) * t.den

\* C27: for entries with finite values the trend getStatistics returns is a
\* finite number.
C27_TrendIsFinite ==
  stats.called => stats.result.trend.kind = "finite"

\* no entry of ms is a sample of the category and name asked for
NoSample(ms, category, name) ==
  \A i \in 1..Len(ms) :
    ~(ms[i].category = UpperStr(category) /\ ms[i].name = LowerStr(name))

IsZero(x) == x.kind = "finite" /\ x.num = 0

\* C24: getStatistics leaves the stored entries as they are, and for a
\* category and name without any stored sample it returns count, average,
\* min, max, latest and trend all 0.
C24_NoSampleGivesZeros ==
  [][ (stats' # stats) =>
        /\ metrics' = metrics
        /\ recorded' = recorded
        /\ NoSample(metrics, stats'.category, stats'.name) =>
              /\ stats'.result.count = 0
              /\ IsZero(stats'.result.average)
              /\ IsZero(stats'.result.min)
              /\ IsZero(stats'.result.max)
              /\ IsZero(stats'.result.latest)
              /\ IsZero(stats'.result.trend) ]_vars

\* samples of the category asked for were logged, all of them have been
\* evicted by later entries, and getStatistics on the full log returned zeros
C24_Witness ==
  /\ stats.called
  /\ stats.at = nextSeq
  /\ UpperStr(stats.category) = TOOLS
  /\ \E i \in 1..Len(recorded) : recorded[i].category = TOOLS
  /\ Len(metrics) = maxEntries
  /\ NoSample(metrics, stats.category, stats.name)
  /\ stats.result.count = 0
  /\ IsZero(stats.result.trend)

\* C26: every tool invocation that ended, by a response of any status, by a
\* rejection or by a body that cannot be read, has recorded exactly one TOOLS
\* execution_time entry and exactly one TOOLS success_rate entry.
C26_OneEntryPairPerInvocation ==
  /\ CountRecorded(TOOLS, execution_time) = EndedInvocations
  /\ CountRecorded(TOOLS, success_rate) = EndedInvocations

\* i and j index different entries of arr with the same id
SharedId(arr, i, j) == i # j /\ arr[i].id = arr[j].id

\* C28: across every sequence of addDocument, deleteDocument and clearMemory
\* the id counter never goes back, addDocument returns an id that is at least
\* the counter it started from (so greater than every id returned before) and
\* leaves the counter above it, every stored document has an id below the
\* counter, no two stored documents share an id and no two stored chunks
\* share a chunk id.
C28_IdsUniqueNeverReused ==
  [][/\ nextDocId' >= nextDocId
     /\ lastOp'.op = "add"
           => /\ lastOp'.id >= nextDocId
              /\ nextDocId' > lastOp'.id
              /\ Known(documents', lastOp'.id)
     /\ \A i \in 1..Len(documents') : documents'[i].id < nextDocId'
     /\ \A i, j \in 1..Len(documents') : ~SharedId(documents', i, j)
     /\ \A i, j \in 1..Len(chunks') : ~SharedId(chunks', i, j)]_vars

\* C28 witness: a document with chunks was added to a store emptied by
\* deleteDocument or clearMemory and got the highest id handed out so far.
C28_Witness ==
  /\ lastOp.op = "add"
  /\ lastOp.id = MaxDocId
  /\ Len(documents) = 1
  /\ Len(chunks) >= 2
  /\ pre.documents = <<>>
  /\ nextDocId = MaxDocId + 1

----------------------------------------------------------------------------
(* ToolContext and ToolsPanel: the tools saved in the Tools panel, the     *)
(* unified list registeredTools, and the panel's handlers.                 *)

\* rank of a character under localeCompare: the space sorts before the
\* letters, letters sort alphabetically whatever their case
CharRank(c) ==
  IF c = " " THEN 0
  ELSE IF LetterIndex(LowerLetters, ToLower(c)) > 0
       THEN LetterIndex(LowerLetters, ToLower(c))
       ELSE Len(LowerLetters) + 1

RECURSIVE localeCompare(_, _)
\* a.localeCompare(b) on names that differ in a letter or are the same
localeCompare(a, b) ==
  IF a = <<>> /\ b = <<>> THEN 0
  ELSE IF a = <<>> THEN -1
  ELSE IF b = <<>> THEN 1
  ELSE IF CharRank(Head(a)) < CharRank(Head(b)) THEN -1
  ELSE IF CharRank(Head(a)) > CharRank(Head(b)) THEN 1
  ELSE localeCompare(Tail(a), Tail(b))

\* the comparator of registeredTools: Tools panel first, then MCP, by name
\* within a source
CompareTools(a, b) ==
  IF a.source = "tools" /\ b.source = "mcp" THEN -1
  ELSE IF a.source = "mcp" /\ b.source = "tools" THEN 1
  ELSE localeCompare(a.name, b.name)

RECURSIVE InsertTool(_, _)
\* one step of the stable sort: x goes behind the entries it does not precede
InsertTool(sorted, x) ==
  IF sorted = <<>> THEN <<x>>
  ELSE IF CompareTools(x, Head(sorted)) < 0
       THEN <<x>> \o sorted
       ELSE <<Head(sorted)>> \o InsertTool(Tail(sorted), x)

RECURSIVE SortTools(_, _, _)
SortTools(arr, i, sorted) ==
  IF i > Len(arr) THEN sorted
  ELSE SortTools(arr, i + 1, InsertTool(sorted, arr[i]))

\* the mock tools a connection discovers, in the order of handleConnectServer
MockTools ==
  <<[name |-> <<"s", "e", "a", "r", "c", "h">>,
     description |-> <<"S", "e", "a", "r", "c", "h", " ", "t", "h", "e", " ", "w", "e", "b">>],
    [name |-> <<"t", "r", "a", "n", "s", "l", "a", "t", "e">>,
     description |-> <<"T", "r", "a", "n", "s", "l", "a", "t", "e", " ", "t", "e", "x", "t">>],
    [name |-> <<"s", "u", "m", "m", "a", "r", "i", "z", "e">>,
     description |-> <<"S", "u", "m", "m", "a", "r", "i", "z", "e", " ", "d", "o", "c", "u", "m", "e", "n", "t", "s">>],
    [name |-> <<"w", "e", "a", "t", "h", "e", "r">>,
     description |-> <<"G", "e", "t", " ", "w", "e", "a", "t", "h", "e", "r", " ", "d", "a", "t", "a">>]>>

\* one entry of transformMcpTools: tool number k of a connected server
McpTool(server, k) ==
  [id |-> <<"mcp", server.id, k>>, name |-> MockTools[k].name,
   description |-> MockTools[k].description, endpoint |-> "mcp", method |-> "GET",
   timeout |-> 10, active |-> TRUE, source |-> "mcp",
   headers |-> <<>>, variablesSchema |-> <<>>]

RECURSIVE transformMcpTools(_)
\* transformMcpTools(servers): the tools of the connected servers, server by
\* server
transformMcpTools(servers) ==
  IF servers = <<>> THEN <<>>
  ELSE LET server == Head(servers)
       IN (IF server.connected /\ server.tools > 0
           THEN [k \in 1..server.tools |-> McpTool(server, k)]
           ELSE <<>>) \o transformMcpTools(Tail(servers))

\* registeredTools: the active tools of both sources, sorted
registeredTools(panelTools, mcpTools) ==
  SortTools(SelectSeq(panelTools, LAMBDA tool : tool.active)
              \o SelectSeq(mcpTools, LAMBDA tool : tool.active), 1, <<>>)

\* the list ChatPanel hands to agentRuntime.process
RegisteredNow == registeredTools(toolsPanelTools, transformMcpTools(mcpServers))

\* formData of the Tools panel form
ToolForm(name, description, endpoint, method, headers) ==
  [name |-> name, description |-> description, endpoint |-> endpoint,
   method |-> method, timeout |-> toolTimeout,
   variablesSchema |-> <<"{", "}">>, headers |-> headers]

\* toolData of handleSaveTool with addTool's source: 'tools'
ToolData(id, formData) ==
  [id |-> id, name |-> formData.name, description |-> formData.description,
   endpoint |-> formData.endpoint, method |-> formData.method,
   timeout |-> formData.timeout, variablesSchema |-> formData.variablesSchema,
   headers |-> formData.headers, active |-> TRUE, source |-> "tools"]

\* one line handed to onLog by the Tools panel
ToolLine(kind, id) == [kind |-> kind, tool |-> id]

\* the most events explored in the Tools panel
MaxToolEvents == 4

\* the id Date.now() gives a tool: later saves get larger ids
NextToolId == Len(toolsLog) + 1

\* ToolsPanel.handleSaveTool with no tool being edited
HandleSaveTool(formData) ==
  /\ Len(toolsLog) < MaxToolEvents
  /\ IF formData.name = <<>> \/ formData.endpoint = ""
     THEN /\ toolsLog' = Append(toolsLog, ToolLine("required", 0))
          /\ UNCHANGED toolsPanelTools
     ELSE IF ~JSONParse(formData.variablesSchema).ok \/ ~JSONParse(formData.headers).ok
     THEN /\ toolsLog' = Append(toolsLog, ToolLine("invalid json", 0))
          /\ UNCHANGED toolsPanelTools
     ELSE /\ toolsPanelTools' = Append(toolsPanelTools, ToolData(NextToolId, formData))
          /\ toolsLog' = Append(toolsLog, ToolLine("saved", NextToolId))
  /\ UNCHANGED <<storeVars, chunkVars, metricVars, matchVars, agentVars, statVars,
                 chatVars, mcpVars>>

\* ToolsPanel.handleDeleteTool(id, name), the confirmation accepted
HandleDeleteTool(id) ==
  /\ Len(toolsLog) < MaxToolEvents
  /\ \E i \in 1..Len(toolsPanelTools) : toolsPanelTools[i].id = id
  /\ toolsPanelTools' = SelectSeq(toolsPanelTools, LAMBDA tool : tool.id # id)
  /\ toolsLog' = Append(toolsLog, ToolLine("deleted", id))
  /\ UNCHANGED <<storeVars, chunkVars, metricVars, matchVars, agentVars, statVars,
                 chatVars, mcpVars>>

\* ToolContext.toggleTool(toolId) on the Tools panel list ts: the tool's
\* active flag is flipped, an unknown id changes nothing
toggleTool(ts, toolId) ==
  [i \in 1..Len(ts) |->
     IF ts[i].id = toolId THEN [ts[i] EXCEPT !.active = ~ts[i].active] ELSE ts[i]]

\* ToolsPanel.handleToggleActive(id), the onClick of the Enable/Disable button:
\* it finds the tool and logs the line, nothing else
HandleToggleActive(id) ==
  /\ Len(toolsLog) < MaxToolEvents
  /\ \E i \in 1..Len(toolsPanelTools) : toolsPanelTools[i].id = id
  /\ LET tool == toolsPanelTools[CHOOSE i \in 1..Len(toolsPanelTools) :
                                    toolsPanelTools[i].id = id]
     IN toolsLog' = Append(toolsLog,
                      ToolLine(IF ~tool.active THEN "activated" ELSE "deactivated", id))
  /\ UNCHANGED <<toolsPanelTools, storeVars, chunkVars, metricVars, matchVars,
                 agentVars, statVars, chatVars, mcpVars>>

\* the forms explored: two that can be saved, one without a name, one whose
\* headers are not JSON
ToolForms ==
  {ToolForm(WeatherTool(TRUE).name, WeatherTool(TRUE).description, "e", "GET", <<"{", "}">>),
   ToolForm(ClockTool.name, ClockTool.description, "c", "POST", <<"{", "}">>),
   ToolForm(<<>>, <<>>, "e", "GET", <<"{", "}">>),
   ToolForm(ClockTool.name, <<>>, "c", "GET", <<"{", "a", "}">>)}

ToolsInit ==
  /\ StoreInit
  /\ MetricsInit
  /\ ChunkIdle
  /\ MatchIdle
  /\ AgentInit
  /\ StatIdle
  /\ UiIdle

ToolsNext ==
  \/ \E f \in ToolForms : HandleSaveTool(f)
  \/ \E id \in 1..MaxToolEvents : HandleDeleteTool(id)
  \/ \E id \in 1..MaxToolEvents : HandleToggleActive(id)

SpecTools == ToolsInit /\ [][ToolsNext]_vars

\* the step was a click on the Enable/Disable button of tool id
Toggled(id) ==
  /\ Len(toolsLog') = Len(toolsLog) + 1
  /\ toolsLog'[Len(toolsLog')].kind \in {"activated", "deactivated"}
  /\ toolsLog'[Len(toolsLog')].tool = id

\* the active flag of the saved tool id in the list ts
ActiveIn(ts, id) == \E i \in 1..Len(ts) : ts[i].id = id /\ ts[i].active

\* the tool id is offered to the agent by the unified list made of ts
Registered(ts, id) ==
  \E i \in 1..Len(registeredTools(ts, <<>>)) : registeredTools(ts, <<>>)[i].id = id

\* C25: a click on the Enable/Disable button of a tool flips the tool's active
\* flag, as toggleTool does, so that the tool leaves registeredTools when it
\* is disabled and is back in it when it is enabled again.
C25_ToggleFlipsActive ==
  [][\A id \in 1..MaxToolEvents :
        Toggled(id) => /\ toolsPanelTools' = toggleTool(toolsPanelTools, id)
                       /\ ActiveIn(toolsPanelTools', id) = ~ActiveIn(toolsPanelTools, id)
                       /\ Registered(toolsPanelTools', id) = ~Registered(toolsPanelTools, id)]_vars

----------------------------------------------------------------------------
(* MCPPanel: saving, connecting and disconnecting MCP servers.             *)

\* the most servers saved and the most connection attempts in flight
MaxServers == 2
MaxAttempts == 3

\* newServer of handleSaveServer; tools is the number of tools discovered,
\* latency is left out
NewServer(id, formData) ==
  [id |-> id, name |-> formData.name, url |-> formData.url,
   connected |-> FALSE, tools |-> 0]

\* MCPPanel.handleSaveServer with no server being edited; Date.now() gives a
\* later server a larger id
HandleSaveServer(formData) ==
  /\ Len(mcpServers) < MaxServers
  /\ IF formData.name = <<>> \/ formData.url = ""
     THEN UNCHANGED mcpServers
     ELSE mcpServers' = Append(mcpServers, NewServer(Len(mcpServers) + 1, formData))
  /\ UNCHANGED <<testingServer, attempts, storeVars, chunkVars, metricVars,
                 matchVars, agentVars, statVars, toolVars, chatVars>>

\* getStatusBadge(server) shows "Connecting..."
ShowsConnecting(server) == testingServer = server.id

\* the Connect button is rendered for a server that is not connected
ConnectRendered(server) == ~server.connected

\* disabled={testingServer === server.id}
ConnectDisabled(server) == testingServer = server.id

\* MCPPanel.handleConnectServer(server) up to its await, reached by a click on
\* an enabled Connect button
HandleConnectServer(i) ==
  /\ i \in 1..Len(mcpServers)
  /\ Len(attempts) < MaxAttempts
  /\ ConnectRendered(mcpServers[i])
  /\ ~ConnectDisabled(mcpServers[i])
  /\ testingServer' = mcpServers[i].id
  /\ attempts' = Append(attempts, mcpServers[i].id)
  /\ UNCHANGED <<mcpServers, storeVars, chunkVars, metricVars, matchVars,
                 agentVars, statVars, toolVars, chatVars>>

\* arr without its entry number k
RemoveAt(arr, k) == SubSeq(arr, 1, k - 1) \o SubSeq(arr, k + 1, Len(arr))

\* the timer of attempt number k fires: handleConnectServer goes on after its
\* await, with the first n mock tools discovered, and ends in its finally block
ConnectionResolves(k, n) ==
  /\ k \in 1..Len(attempts)
  /\ mcpServers' = [i \in 1..Len(mcpServers) |->
        IF mcpServers[i].id = attempts[k]
        THEN [mcpServers[i] EXCEPT !.connected = TRUE, !.tools = n]
        ELSE mcpServers[i]]
  /\ testingServer' = 0
  /\ attempts' = RemoveAt(attempts, k)
  /\ UNCHANGED <<storeVars, chunkVars, metricVars, matchVars, agentVars, statVars,
                 toolVars, chatVars>>

\* MCPPanel.handleDisconnectServer(server), reached by the Disconnect button
HandleDisconnectServer(i) ==
  /\ i \in 1..Len(mcpServers)
  /\ mcpServers[i].connected
  /\ mcpServers' = [mcpServers EXCEPT ![i].connected = FALSE]
  /\ UNCHANGED <<testingServer, attempts, storeVars, chunkVars, metricVars,
                 matchVars, agentVars, statVars, toolVars, chatVars>>

ServerForms ==
  {[name |-> <<"a">>, url |-> "http://a"], [name |-> <<"b">>, url |-> "http://b"]}

McpInit == ToolsInit

McpNext ==
  \/ \E f \in ServerForms : HandleSaveServer(f)
  \/ \E i \in 1..MaxServers : HandleConnectServer(i)
  \/ \E k \in 1..MaxAttempts, n \in 1..Len(MockTools) : ConnectionResolves(k, n)
  \/ \E i \in 1..MaxServers : HandleDisconnectServer(i)

SpecMcp == McpInit /\ [][McpNext]_vars

\* the saved server with the given id
ServerOf(id) == mcpServers[CHOOSE i \in 1..Len(mcpServers) : mcpServers[i].id = id]

\* C30: every connection attempt in flight is to the server testingServer
\* names, so that this server shows "Connecting..." and its Connect button, if
\* rendered, is disabled; no two attempts in flight are to the same server.
C30_InFlightServerShowsConnecting ==
  /\ \A k \in 1..Len(attempts) :
        /\ testingServer = attempts[k]
        /\ ShowsConnecting(ServerOf(attempts[k]))
        /\ ConnectDisabled(ServerOf(attempts[k]))
  /\ \A j, k \in 1..Len(attempts) : j # k => attempts[j] # attempts[k]

----------------------------------------------------------------------------
(* ChatPanel: handleSend, from the click or the Enter key to the reply.    *)
(* A message is kept by its kind: "user" for the user's message, "tool",   *)
(* "llm" and "error" for the three replies (all of type "llm" in the       *)
(* code, told apart by fromTool and isError).                              *)

\* the most sends explored
MaxSends == 2

\* the textarea is disabled while isThinking: setInput(e.target.value)
HandleInputChange(value) ==
  /\ ~isThinking
  /\ inputBox # value
  /\ inputBox' = value
  /\ UNCHANGED <<messages, isThinking, sending, storeVars, chunkVars, metricVars,
                 matchVars, agentVars, statVars, toolVars, mcpVars>>

\* the guard of handleSend: if (!input.trim() || isThinking) return
Accepted(value, thinking) == ~(Trim(value) = <<>> \/ thinking)

\* ChatPanel.handleSend up to its first await: the user message is appended,
\* the input is cleared, isThinking is set and agentRuntime.process is called
\* with the trimmed text and the registered tools
HandleSend ==
  /\ Len(messages) < 2 + 2 * MaxSends
  /\ Accepted(inputBox, isThinking)
  /\ messages' = Append(messages, "user")
  /\ inputBox' = <<>>
  /\ isThinking' = TRUE
  /\ sending' = "agent"
  /\ Process(Trim(inputBox), RegisteredNow)
  /\ UNCHANGED <<storeVars, chunkVars, matchVars, statVars, toolVars, mcpVars>>

\* a handleSend whose tool branch ends without resetting isThinking
AgentReturnsKeepsThinking ==
  /\ sending = "agent"
  /\ agent.pc \in {"done", "threw"}
  /\ IF agent.pc = "threw"
     THEN /\ messages' = Append(messages, "error")
          /\ isThinking' = FALSE
          /\ sending' = "none"
     ELSE IF agent.result.fromTool
     THEN /\ messages' = Append(messages, "tool")
          /\ isThinking' = isThinking
          /\ sending' = "none"
     ELSE /\ sending' = "llm"
          /\ UNCHANGED <<messages, isThinking>>
  /\ UNCHANGED <<inputBox, storeVars, chunkVars, metricVars, matchVars, agentVars,
                 statVars, toolVars, mcpVars>>

\* handleSend after "await agentRuntime.process(...)": a rejection goes to the
\* catch block, which appends the error message; a tool result is appended as
\* the reply; otherwise callLLM is awaited. The finally block resets isThinking
\* once a reply was appended.
AgentReturns ==
  /\ sending = "agent"
  /\ agent.pc \in {"done", "threw"}
  /\ IF agent.pc = "threw"
     THEN /\ messages' = Append(messages, "error")
          /\ isThinking' = FALSE
          /\ sending' = "none"
     ELSE IF agent.result.fromTool
     THEN /\ messages' = Append(messages, "tool")
          /\ isThinking' = FALSE
          /\ sending' = "none"
     ELSE /\ sending' = "llm"
          /\ UNCHANGED <<messages, isThinking>>
  /\ UNCHANGED <<inputBox, storeVars, chunkVars, metricVars, matchVars, agentVars,
                 statVars, toolVars, mcpVars>>

\* the category and the names callLLM logs
CHAT == <<"C", "H", "A", "T">>
latency == <<"l", "a", "t", "e", "n", "c", "y">>
tokens_per_second == <<"t", "o", "k", "e", "n", "s", "_", "p", "e", "r", "_", "s", "e", "c", "o", "n", "d">>

\* the timer of callLLM fires: the two CHAT metrics are logged, the response
\* is appended and the finally block resets isThinking
LLMResolves ==
  /\ sending = "llm"
  /\ SetMetricLog(Logged(Logged(MetricLog, CHAT, latency, 1),
                         CHAT, tokens_per_second, 1))
  /\ messages' = Append(messages, "llm")
  /\ isThinking' = FALSE
  /\ sending' = "none"
  /\ UNCHANGED <<inputBox, storeVars, chunkVars, matchVars, agentVars, statVars,
                 toolVars, mcpVars>>

\* the texts typed into the input box
ChatInputs ==
  {<<" ">>, <<" ", "W", "e", "a", "t", "h", "e", "r", " ">>, <<"h", "e", "l", "l", "o">>}

\* the Tools panel holds no tool or the weather tool
ChatInit ==
  /\ StoreInit
  /\ MetricsInit
  /\ ChunkIdle
  /\ MatchIdle
  /\ AgentInit
  /\ StatIdle
  /\ ChatIdle
  /\ McpIdle
  /\ toolsLog = <<>>
  /\ toolsPanelTools \in
       {<<>>,
        <<ToolData(1, ToolForm(WeatherTool(TRUE).name, WeatherTool(TRUE).description,
                               "e", "GET", <<"{", "}">>))>>}

\* the answers of the tool's endpoint explored
ChatFetchResolves ==
  \E st \in {200, 404}, r \in BOOLEAN : FetchResolves(st, TRUE, r, "object")

ChatNext ==
  \/ \E v \in ChatInputs : HandleInputChange(v)
  \/ HandleSend
  \/ Tick
  \/ ChatFetchResolves
  \/ FetchRejects
  \/ AgentReturns
  \/ LLMResolves

SpecChat == ChatInit /\ [][ChatNext]_vars

\* how far the send in flight is from its reply: 3 while the tool's endpoint
\* has not answered, 2 once process() has settled, 1 while callLLM is awaited,
\* 0 when no send is in flight
SendStage ==
  IF sending = "none" THEN 0
  ELSE IF sending = "llm" THEN 1
  ELSE IF agent.pc = "awaiting" THEN 3 ELSE 2

\* C29: the messages alternate between a user message and one reply, a send
\* is accepted only with a non-empty trimmed input while isThinking is false,
\* isThinking is true exactly from the acceptance until the reply is appended,
\* each step appends at most one message, and while isThinking is true a step
\* by which the agent or LLM call completes is possible and every step but
\* the clock's brings the reply nearer, so that isThinking returns to false.
C29_OneReplyPerSend ==
  /\ [](/\ \A i \in 1..Len(messages) : (messages[i] = "user") = (i % 2 = 1)
        /\ isThinking = (Len(messages) % 2 = 1)
        /\ isThinking = (SendStage > 0)
        /\ isThinking => ENABLED (FetchRejects \/ AgentReturns \/ LLMResolves))
  /\ [][/\ messages' = messages \/ \E kind \in {"user", "tool", "llm", "error"} :
                                      messages' = Append(messages, kind)
        /\ Len(messages') > Len(messages) /\ messages'[Len(messages')] = "user"
              => ~isThinking /\ Trim(inputBox) # <<>> /\ isThinking'
        /\ Len(messages') > Len(messages) /\ messages'[Len(messages')] # "user"
              => isThinking /\ ~isThinking'
        /\ isThinking
              => \/ SendStage' < SendStage
                 \/ SendStage' = SendStage /\ agent'.elapsed > agent.elapsed]_vars

\* C29 witness: two sends were accepted and answered, one by a tool result and
\* one by the LLM, and isThinking is false again.
C29_Witness ==
  /\ Len(messages) = 2 + 2 * MaxSends
  /\ \E i \in 3..Len(messages) : messages[i] = "tool"
  /\ \E i \in 3..Len(messages) : messages[i] = "llm"
  /\ ~isThinking

=============================================================================
